---- MODULE Spec2Model ----
(***************************************************************************)
(* A model of the graph-augmented retrieval engine of graphrag-rust:       *)
(* the entity normalizer (crates/extract), the Louvain community detector  *)
(* (crates/communities) and the local and global search engines            *)
(* (crates/query).  Each component has its own specification over its own  *)
(* variables; the variables of the other components stay idle.             *)
(***************************************************************************)
EXTENDS Integers, Sequences, FiniteSets, TLC

(***************************************************************************)
(* Bounds of the model.                                                    *)
(***************************************************************************)
\* longest raw entity name handed to normalize in a session
MaxLen == 2
\* longest raw entity name handed to the first call on a new normalizer
MaxNameLen == 3
\* number of normalize calls in one session
MaxCalls == 3
\* most entities and most edges of a GraphData handed to the detector
MaxNodes == 4
MaxEdges == 2
\* most points in an answer of the vector store, longest entity_ids payload of
\* a point, most relations in the graph store
MaxPoints == 2
MaxPayloadLen == 3
MaxRelations == 1
\* the scaled-down f32: significand bits, the exponent of 1.0 in units of the
\* smallest positive value, the largest exponent of a unit in the last place
Precision == 3
UnitExp == 4
MaxShift == 5
\* longest vector given to cosine_similarity
MaxDim == 2
\* most community summaries on disk, largest top_k of a global search
MaxSummaries == 3
MaxTopK == 4
\* most entities and most edges of a graph on which detection is run twice
MaxRerunNodes == 5
MaxRerunEdges == 3
\* most requests for a detection run
MaxRuns == 2
MaxRequests == 2
MaxChunks == 2
MaxEntities == 1
MaxGraphCalls == 3
MaxIndexCalls == 3
MaxFairNodes == 3
MaxFairEdges == 2
MaxExpandRelations == 3
MaxWordsLen == 5
MaxChunkEntities == 2
MaxRetries == 3
MaxCacheEntries == 4
MaxTexts == 5

(***************************************************************************)
(* Strings are sequences of one-character strings.                         *)
(***************************************************************************)
Chars == {"a", "b", "A", " ", "."}

RawNames == UNION {[1..n -> Chars] : n \in 0..MaxLen}

LongNames == UNION {[1..n -> Chars] : n \in 0..MaxNameLen}

Max(x, y) == IF x >= y THEN x ELSE y

Min(x, y) == IF x <= y THEN x ELSE y

(***************************************************************************)
(* EntityNormalizer: the string conversions of normalize.                  *)
(***************************************************************************)
\* char::to_lowercase on the letters of the alphabet
LowerChar(c) == CASE c = "A" -> "a" [] c = "B" -> "b" [] OTHER -> c

\* str::to_lowercase
to_lowercase(s) == [i \in 1..Len(s) |-> LowerChar(s[i])]

\* char::is_whitespace, the class \s of the regex
IsWhitespace(c) == c \in {" "}

\* the class [.,!?;:'] of the first regex
Punctuation == {".", ",", "!", "?", ";", ":", "'"}

RECURSIVE trim_start(_)
trim_start(s) ==
    IF s # <<>> /\ IsWhitespace(Head(s)) THEN trim_start(Tail(s)) ELSE s

RECURSIVE trim_end(_)
trim_end(s) ==
    IF s # <<>> /\ IsWhitespace(s[Len(s)])
    THEN trim_end(SubSeq(s, 1, Len(s) - 1))
    ELSE s

\* str::trim: leading and trailing whitespace only
trim(s) == trim_end(trim_start(s))

\* re.replace_all(&normalized, "") with re = [.,!?;:']
RemovePunctuation(s) == SelectSeq(s, LAMBDA c : c \notin Punctuation)

\* re.replace_all(&normalized, " ") with re = \s+
RECURSIVE CollapseSpaces(_)
CollapseSpaces(s) ==
    IF s = <<>> THEN <<>>
    ELSE IF IsWhitespace(Head(s))
         THEN <<" ">> \o CollapseSpaces(trim_start(Tail(s)))
         ELSE <<Head(s)>> \o CollapseSpaces(Tail(s))

\* lines 19-30 of normalize, in the order the code applies them
NormalizedForm(name) ==
    CollapseSpaces(RemovePunctuation(trim(to_lowercase(name))))

\* str::contains: b occurs in a as a contiguous run (the empty string always does)
Contains(a, b) ==
    \E i \in 0..(Len(a) - Len(b)) : SubSeq(a, i + 1, i + Len(b)) = b

\* the length of the first word of a string that starts with a non-whitespace
RECURSIVE WordEnd(_, _)
WordEnd(s, i) ==
    IF i > Len(s) \/ IsWhitespace(s[i]) THEN i - 1 ELSE WordEnd(s, i + 1)

\* str::split_whitespace, collected into a Vec
RECURSIVE split_whitespace(_)
split_whitespace(s) ==
    LET t == trim_start(s) IN
    IF t = <<>> THEN <<>>
    ELSE LET k == WordEnd(t, 1) IN
         <<SubSeq(t, 1, k)>> \o split_whitespace(SubSeq(t, k + 1, Len(t)))

\* the word-overlap rule of are_similar, lines 70-83
ShareMostWords(a, b) ==
    LET words_a == split_whitespace(a)
        words_b == split_whitespace(b)
    IN  IF Len(words_a) > 1 /\ Len(words_b) > 1
        THEN LET common == Cardinality({i \in 1..Len(words_a) :
                              \E j \in 1..Len(words_b) : words_b[j] = words_a[i]})
                 total == Max(Len(words_a), Len(words_b))
             IN  \* common as f64 / total as f64 > 0.7
                 common * 10 > 7 * total
        ELSE FALSE

\* are_similar with the bug of leaving out the containment rule of line 66
are_similar_NoContainment(a, b) ==
    IF a = b THEN TRUE ELSE ShareMostWords(a, b)

\* EntityNormalizer::are_similar
are_similar(a, b) ==
    IF a = b THEN TRUE
    ELSE IF Contains(a, b) \/ Contains(b, a) THEN TRUE
    ELSE ShareMostWords(a, b)

VARIABLES
    \* EntityNormalizer.aliases: normalized name -> canonical name
    aliases,
    \* number of normalize calls made in the session
    calls,
    \* the raw name the single-call specification hands to normalize
    arg,
    \* the local `normalized`, the return value and the branch of the latest call
    normalized, returned_id, branch,
    \* history: for each normalized form, the calls made with a name of that
    \* form, each as <<number of the call, id it returned>>
    returned

normVars == <<aliases, calls, arg, normalized, returned_id, branch, returned>>

VARIABLES
    \* LouvainDetector.graph: GraphData.entities and GraphData.edges
    entities, edges,
    \* the locals of detect_communities
    communities, improved, iteration, node,
    \* where detect_communities stands, and the map it returns
    lpc, result,
    \* history: the moves made in the pass under way (or the last one) and in all
    pass_moves, total_moves

louvVars == <<entities, edges, communities, improved, iteration, node, lpc,
              result, pass_moves, total_moves>>


VARIABLES
    \* the RELATION edges of the graph store, as <<source id, target id>>
    store_relations,
    \* where search stands: the call it is about to make, "ok" or "err"
    spc,
    \* the locals of search
    chunks_retrieved, entity_ids, sources, expanded_entities, context,
    \* the points read so far by the loop of line 71, the hops made by expand_graph
    points_read, hops,
    \* what search returned: nothing yet, Err or Ok with the LocalSearchResult
    search_result,
    \* history: the graph-store queries issued, the LLM calls made and the call
    \* that failed
    graph_queries, llm_calls, failed,
    \* history: whether a point without chunk_id or text was read, the field
    \* taking the default of lines 166-174
    defaulted

lsVars == <<store_relations, spc, chunks_retrieved, entity_ids, sources,
            expanded_entities, context, points_read, hops, search_result,
            graph_queries, llm_calls, failed,
           defaulted>>

VARIABLES
    \* the arguments of a call of cosine_similarity, its return value, and
    \* whether it has returned
    vec_a, vec_b, similarity, cpc

cosVars == <<vec_a, vec_b, similarity, cpc>>

VARIABLES
    \* the parameter top_k of a global search
    top_k,
    \* where the search stands: the step it is about to make, "ok", "err" or
    \* "panic"
    gpc,
    \* the locals of search; scored_summaries holds top_communities from line 64
    summaries, query_embedding, scored_summaries,
    \* what search returned: nothing yet, Err or Ok with the GlobalSearchResult
    global_result,
    \* history: the step of search that failed
    gs_failed

gsVars == <<top_k, gpc, summaries, query_embedding, scored_summaries,
            global_result, gs_failed>>

VARIABLES
    \* whether the directory data/communities exists
    dir_exists,
    \* its files community_<id>.json: for each community_id on disk, the
    \* number of the detection run that wrote the file
    files

diskVars == <<dir_exists, files>>

VARIABLES
    \* history: the number of runs of detect_communities completed before the
    \* one under way, and the map the first of them returned
    runs, first_result

rerunVars == <<runs, first_result>>

\* no run of detect_communities has been completed
RerunIdle ==
    /\ runs = 0
    /\ first_result = <<>>

VARIABLES
    \* where the detect_communities handler stands: "ready" for a request,
    \* "mkdir" or "write"
    dpc,
    \* the summaries still to be written by the request under way
    pending,
    \* history: the requests made, those that completed, and the community ids
    \* of the last request that got its summaries
    run_no, completed, latest

detVars == <<dpc, pending, run_no, completed, latest>>

\* no request for a detection run has been made
DetIdle ==
    /\ dpc = "ready"
    /\ pending = <<>>
    /\ run_no = 0
    /\ completed = 0
    /\ latest = {}

VARIABLES
    \* the RELATION edges of the graph store during detection, and the
    \* community_id property of its entities: <<>> when unset, else the run
    \* that wrote it and the id written
    rel_graph, community_id,
    \* where detect_and_summarize stands, the map detect_communities returned,
    \* and the entities assign_communities has still to write
    apc, assignment, remaining,
    \* history: 1 for the first run, 2 for the run made after an interruption
    attempt

asgVars == <<rel_graph, community_id, apc, assignment, remaining, attempt>>

\* no detection has been started
AsgIdle ==
    /\ rel_graph = {}
    /\ community_id = <<>>
    /\ apc = "idle"
    /\ assignment = <<>>
    /\ remaining = <<>>
    /\ attempt = 0

\* The /extract handler (main.rs, extract_chunks) serving concurrent requests
\* that share AppState.extractor, an Arc<Mutex<Extractor>>:
\*   epc            where each request stands in extract_chunks
\*   lock_owner     the request holding the MutexGuard, 0 when the lock is free
\*   chunks_left    the chunk files a request still has to go through
\*   entities_left  the entities of the current chunk still to be normalized
VARIABLES
    epc,
    lock_owner,
    chunks_left,
    entities_left

extrVars == <<epc, lock_owner, chunks_left, entities_left>>

\* no request has arrived
ExtrIdle ==
    /\ epc = <<>>
    /\ lock_owner = 0
    /\ chunks_left = <<>>
    /\ entities_left = <<>>

\* A GraphData (graph_export.rs) and the calls made on it:
\*   graph_data   its fields entities, edges and entity_to_idx
\*   idx          what the last add_entity returned, <<>> before any
\*   graph_calls  the calls made so far
VARIABLES
    graph_data,
    idx,
    graph_calls

gdVars == <<graph_data, idx, graph_calls>>

\* GraphData::new, lines 13-19; no call made
GdIdle ==
    /\ graph_data = [entities |-> <<>>, edges |-> <<>>, entity_to_idx |-> <<>>]
    /\ idx = <<>>
    /\ graph_calls = 0

\* The graph store as Neo4jIndexer (neo4j_index.rs) writes it:
\*   store_nodes   the Entity nodes: id -> [name, type, description]
\*   store_edges   the RELATION edges <<source id, relation type, target id>>
\*   ipc           the statement index_relation is about to run, with its
\*                 relation, or "idle" between two calls
\*   index_calls   the calls of index_entity and index_relation made so far
VARIABLES
    store_nodes,
    store_edges,
    ipc,
    index_calls

ixVars == <<store_nodes, store_edges, ipc, index_calls>>

\* an empty graph store, no call made
IxIdle ==
    /\ store_nodes = <<>>
    /\ store_edges = {}
    /\ ipc = [at |-> "idle"]
    /\ index_calls = 0

\* One call of EntityNormalizer::are_similar (normalizer.rs lines 59-86):
\*   sim_a, sim_b   its arguments, the new normalized name and a key of the table
\*   sim_result     what it returned, "none" before it returns
VARIABLES
    sim_a,
    sim_b,
    sim_result

simVars == <<sim_a, sim_b, sim_result>>

\* are_similar is not being called
SimIdle ==
    /\ sim_a = <<>>
    /\ sim_b = <<>>
    /\ sim_result = "idle"

\* A chunk on its way through the vector store (qdrant_index.rs index_chunk,
\* local_search.rs search):
\*   chunk_entity_ids  the entity ids index_chunk is given for the chunk
\*   stored_payload    the "entity_ids" string of the stored point
\*   seed_entities     the seed set search derives from the point
\*   rt_pc             how far the chunk got: "collected", "indexed", "retrieved"
VARIABLES
    chunk_entity_ids,
    stored_payload,
    seed_entities,
    rt_pc

rtVars == <<chunk_entity_ids, stored_payload, seed_entities, rt_pc>>

\* no chunk is being indexed
RtIdle ==
    /\ chunk_entity_ids = <<>>
    /\ stored_payload = <<>>
    /\ seed_entities = {}
    /\ rt_pc = "idle"

\* One call of OllamaClient::generate_json_with_retry (llm.rs lines 70-98):
\*   max_retries   its argument
\*   attempt_no    the loop variable attempt
\*   jpc           where the call stands: "for", "generate", "correct", "returned"
\*   llm_history   what each call of generate gave so far: a response, or
\*                 "failed" for an Err
\*   json_result   what the call returned, of kind "none" before it returns
VARIABLES
    max_retries,
    attempt_no,
    jpc,
    llm_history,
    json_result

retryVars == <<max_retries, attempt_no, jpc, llm_history, json_result>>

\* generate_json_with_retry is not being called
RetryIdle ==
    /\ max_retries = 0
    /\ attempt_no = 0
    /\ jpc = "idle"
    /\ llm_history = <<>>
    /\ json_result = [kind |-> "none"]

\* The Cache of the API server (cache.rs):
\*   max_entries     the argument of Cache::new
\*   embeddings      the map from hashed text to embedding
\*   llm_responses   the map from hashed prompt to response
VARIABLES
    max_entries,
    embeddings,
    llm_responses

cacheVars == <<max_entries, embeddings, llm_responses>>

\* no Cache has been created
CacheIdle ==
    /\ max_entries = 0
    /\ embeddings = <<>>
    /\ llm_responses = <<>>

vars ==
    <<normVars, louvVars, lsVars, cosVars, gsVars,
      diskVars, rerunVars, detVars, asgVars, extrVars,
      gdVars, ixVars, simVars, rtVars, retryVars,
      cacheVars>>

\* the variables of the other components
notNormVars ==
    <<louvVars, lsVars, cosVars, gsVars, diskVars,
      rerunVars, detVars, asgVars, extrVars, gdVars,
      ixVars, simVars, rtVars, retryVars, cacheVars>>
notLouvVars ==
    <<normVars, lsVars, cosVars, gsVars, diskVars,
      rerunVars, detVars, asgVars, extrVars, gdVars,
      ixVars, simVars, rtVars, retryVars, cacheVars>>
notLsVars ==
    <<normVars, louvVars, cosVars, gsVars, diskVars,
      rerunVars, detVars, asgVars, extrVars, gdVars,
      ixVars, simVars, rtVars, retryVars, cacheVars>>
notCosVars ==
    <<normVars, louvVars, lsVars, gsVars, diskVars,
      rerunVars, detVars, asgVars, extrVars, gdVars,
      ixVars, simVars, rtVars, retryVars, cacheVars>>
notGsVars ==
    <<normVars, louvVars, lsVars, cosVars, diskVars,
      rerunVars, detVars, asgVars, extrVars, gdVars,
      ixVars, simVars, rtVars, retryVars, cacheVars>>
notDetVars ==
    <<normVars, louvVars, lsVars, cosVars, gsVars,
      rerunVars, asgVars, extrVars, gdVars, ixVars,
      simVars, rtVars, retryVars, cacheVars>>
notTwoRunsVars ==
    <<normVars, lsVars, cosVars, gsVars, diskVars,
      detVars, asgVars, extrVars, gdVars, ixVars,
      simVars, rtVars, retryVars, cacheVars>>
notAsgVars ==
    <<normVars, louvVars, lsVars, cosVars, gsVars,
      diskVars, rerunVars, detVars, extrVars, gdVars,
      ixVars, simVars, rtVars, retryVars, cacheVars>>

\* cosine_similarity is not in use
CosIdle ==
    /\ vec_a = <<>>
    /\ vec_b = <<>>
    /\ similarity = 0
    /\ cpc = "idle"

\* the directory of the summaries has not been created
DiskIdle ==
    /\ dir_exists = FALSE
    /\ files = <<>>

\* global search is not in use
GsIdle ==
    /\ top_k = 0
    /\ gpc = "idle"
    /\ summaries = <<>>
    /\ query_embedding = <<>>
    /\ scored_summaries = <<>>
    /\ global_result = [kind |-> "none"]
    /\ gs_failed = "none"

\* local search is not in use
LsIdle ==
    /\ store_relations = {}
    /\ spc = "idle"
    /\ chunks_retrieved = 0
    /\ entity_ids = {}
    /\ sources = <<>>
    /\ expanded_entities = {}
    /\ context = <<>>
    /\ points_read = 0
    /\ hops = 0
    /\ search_result = [kind |-> "none"]
    /\ graph_queries = 0
    /\ llm_calls = 0
    /\ failed = "none"
    /\ defaulted = FALSE

\* the values of a table
Range(f) == {f[k] : k \in DOMAIN f}

\* the orders in which a hash container can enumerate the set S
Orders(S) ==
    {o \in [1..Cardinality(S) -> S] : \A i, j \in DOMAIN o : o[i] = o[j] => i = j}

\* the component is not in use
LouvIdle ==
    /\ entities = <<>>
    /\ edges = <<>>
    /\ communities = <<>>
    /\ improved = FALSE
    /\ iteration = 0
    /\ node = 0
    /\ lpc = "idle"
    /\ result = <<>>
    /\ pass_moves = 0
    /\ total_moves = 0

notExtrVars ==
    <<normVars, louvVars, lsVars, cosVars, gsVars,
      diskVars, rerunVars, detVars, asgVars, gdVars,
      ixVars, simVars, rtVars, retryVars, cacheVars>>

notGdVars ==
    <<normVars, louvVars, lsVars, cosVars, gsVars,
      diskVars, rerunVars, detVars, asgVars, extrVars,
      ixVars, simVars, rtVars, retryVars, cacheVars>>

notIxVars ==
    <<normVars, louvVars, lsVars, cosVars, gsVars,
      diskVars, rerunVars, detVars, asgVars, extrVars,
      gdVars, simVars, rtVars, retryVars, cacheVars>>

notSimVars ==
    <<normVars, louvVars, lsVars, cosVars, gsVars,
      diskVars, rerunVars, detVars, asgVars, extrVars,
      gdVars, ixVars, rtVars, retryVars, cacheVars>>

notRtVars ==
    <<normVars, louvVars, lsVars, cosVars, gsVars,
      diskVars, rerunVars, detVars, asgVars, extrVars,
      gdVars, ixVars, simVars, retryVars, cacheVars>>

notRetryVars ==
    <<normVars, louvVars, lsVars, cosVars, gsVars,
      diskVars, rerunVars, detVars, asgVars, extrVars,
      gdVars, ixVars, simVars, rtVars, cacheVars>>

notCacheVars ==
    <<normVars, louvVars, lsVars, cosVars, gsVars,
      diskVars, rerunVars, detVars, asgVars, extrVars,
      gdVars, ixVars, simVars, rtVars, retryVars>>

\* EntityNormalizer::new
NormNew ==
    /\ aliases = <<>>
    /\ calls = 0
    /\ normalized = <<>>
    /\ returned_id = <<>>
    /\ branch = "none"
    /\ returned = <<>>

\* the normalizer is not in use
NormIdle == NormNew /\ arg = <<>>

\* every component is idle, but for those named in own
IdleExcept(own) ==
    /\ IF "norm" \in own THEN TRUE ELSE NormIdle
    /\ IF "louv" \in own THEN TRUE ELSE LouvIdle
    /\ IF "ls" \in own THEN TRUE ELSE LsIdle
    /\ IF "cos" \in own THEN TRUE ELSE CosIdle
    /\ IF "gs" \in own THEN TRUE ELSE GsIdle
    /\ IF "disk" \in own THEN TRUE ELSE DiskIdle
    /\ IF "rerun" \in own THEN TRUE ELSE RerunIdle
    /\ IF "det" \in own THEN TRUE ELSE DetIdle
    /\ IF "asg" \in own THEN TRUE ELSE AsgIdle
    /\ IF "extr" \in own THEN TRUE ELSE ExtrIdle
    /\ IF "gd" \in own THEN TRUE ELSE GdIdle
    /\ IF "ix" \in own THEN TRUE ELSE IxIdle
    /\ IF "sim" \in own THEN TRUE ELSE SimIdle
    /\ IF "rt" \in own THEN TRUE ELSE RtIdle
    /\ IF "retry" \in own THEN TRUE ELSE RetryIdle
    /\ IF "cache" \in own THEN TRUE ELSE CacheIdle

\* the history, after the next call, made with a name of form norm, returned id
Record(norm, id) ==
    IF norm \in DOMAIN returned
    THEN [returned EXCEPT ![norm] = @ \cup {<<calls + 1, id>>}]
    ELSE returned @@ (norm :> {<<calls + 1, id>>})

\* NormalizeHit with the bug of returning the key instead of its canonical id
NormalizeHit_ReturnsKey(norm) ==
    /\ norm \in DOMAIN aliases
    /\ returned_id' = norm
    /\ returned' = Record(norm, norm)
    /\ branch' = "hit"
    /\ UNCHANGED aliases

\* normalize, lines 33-35: the normalized form is a key of the table
NormalizeHit(norm) ==
    /\ norm \in DOMAIN aliases
    /\ returned_id' = aliases[norm]
    /\ returned' = Record(norm, aliases[norm])
    /\ branch' = "hit"
    /\ UNCHANGED aliases

\* NormalizeAlias mapping the new name to the similar key itself instead of to
\* the canonical id of that key
NormalizeAlias_ToKey(norm) ==
    /\ norm \notin DOMAIN aliases
    /\ \E existing_norm \in DOMAIN aliases :
         /\ are_similar(norm, existing_norm)
         /\ aliases' = aliases @@ (norm :> existing_norm)
         /\ returned_id' = existing_norm
         /\ returned' = Record(norm, existing_norm)
    /\ branch' = "alias"

\* normalize, lines 38-51: the scan of the table for a similar entry.  The scan
\* follows the HashMap's iteration order, which is arbitrary, and stops at the
\* first similar entry: any similar entry can be that first one.
NormalizeAlias(norm) ==
    /\ norm \notin DOMAIN aliases
    /\ \E existing_norm \in DOMAIN aliases :
         /\ are_similar(norm, existing_norm)
         /\ aliases' = aliases @@ (norm :> aliases[existing_norm])
         /\ returned_id' = aliases[existing_norm]
         /\ returned' = Record(norm, aliases[existing_norm])
    /\ branch' = "alias"

\* NormalizeNew starting the table over with the new entity as its only entry
NormalizeNew_ClearsTable(norm) ==
    /\ norm \notin DOMAIN aliases
    /\ \A existing_norm \in DOMAIN aliases : ~are_similar(norm, existing_norm)
    /\ aliases' = (norm :> norm)
    /\ returned_id' = norm
    /\ returned' = Record(norm, norm)
    /\ branch' = "new"

\* normalize, lines 53-55: a new entity, its normalized form is its canonical id
NormalizeNew(norm) ==
    /\ norm \notin DOMAIN aliases
    /\ \A existing_norm \in DOMAIN aliases : ~are_similar(norm, existing_norm)
    /\ aliases' = aliases @@ (norm :> norm)
    /\ returned_id' = norm
    /\ returned' = Record(norm, norm)
    /\ branch' = "new"

\* EntityNormalizer::normalize
normalize(name) ==
    LET norm == NormalizedForm(name) IN
    /\ calls' = calls + 1
    /\ normalized' = norm
    /\ \/ NormalizeHit(norm)
       \/ NormalizeAlias(norm)
       \/ NormalizeNew(norm)

\* one extraction session: normalize is called with one raw name after another
SessionCall ==
    /\ calls < MaxCalls
    /\ \E name \in RawNames : normalize(name)
    /\ UNCHANGED <<arg, notNormVars>>

NormNext == SessionCall

\* a session starts with a new normalizer
NormInit == NormNew /\ arg = <<>> /\ IdleExcept({"norm"})

SpecNormalizer == NormInit /\ [][NormNext]_vars

\* the first call on a new normalizer, for every raw name up to MaxNameLen
FirstCall ==
    /\ calls = 0
    /\ normalize(arg)
    /\ UNCHANGED <<arg, notNormVars>>

\* a new normalizer and the raw name it is about to be called with
FirstCallInit == NormNew /\ arg \in LongNames /\ IdleExcept({"norm"})

SpecFirstCall == FirstCallInit /\ [][FirstCall]_vars

(***************************************************************************)
(* LouvainDetector::detect_communities over a GraphData.  Node indices and *)
(* community ids are 0-based as in the code; `communities`, the adjacency  *)
(* list and the degrees are functions over 0..n-1.                         *)
(***************************************************************************)
\* const MAX_ITERATIONS
MAX_ITERATIONS == 10

\* the identifier of the i-th entity added to a GraphData
EntityId(i) == "e" \o ToString(i)

\* the GraphData values with n entities: add_entity gives the distinct
\* identifiers the indices 0..n-1, add_edge pushes pairs of such indices
GraphEdges(n) ==
    UNION {[1..k -> (0..(n - 1)) \X (0..(n - 1))] : k \in 0..MaxEdges}

\* self.graph.entities.len()
NumNodes == Len(entities)

\* adj_list[a][b] after lines 31-35; 0 stands for an absent key
AdjWeight(a, b) ==
    Cardinality({i \in 1..Len(edges) : edges[i] = <<a, b>>})
    + Cardinality({i \in 1..Len(edges) : edges[i] = <<b, a>>})

\* the keys of adj_list[a]
Neighbors(a) == {b \in 0..(NumNodes - 1) : AdjWeight(a, b) > 0}

RECURSIVE SumOver(_, _)
SumOver(S, f) ==
    IF S = {} THEN 0
    ELSE LET x == CHOOSE y \in S : TRUE IN f[x] + SumOver(S \ {x}, f)

\* degrees[a], lines 38-41
Degree(a) == SumOver(Neighbors(a), [b \in Neighbors(a) |-> AdjWeight(a, b)])

\* m = total_edges / 2.0, line 43
TotalWeight == Len(edges)

\* neighbor_comms of lines 61-65, for the assignment comms: the communities of
\* the neighbours of nd, each with the weight of the edges from nd into it
NeighborComms(nd, comms) ==
    LET keys == {comms[b] : b \in Neighbors(nd)} IN
    [c \in keys |->
        SumOver({b \in Neighbors(nd) : comms[b] = c},
                [b \in Neighbors(nd) |-> AdjWeight(nd, b)])]

\* the sum of the degrees of the nodes assigned to community c, lines 132-142
Sigma(c, comms) ==
    SumOver({i \in 0..(NumNodes - 1) : comms[i] = c},
            [i \in 0..(NumNodes - 1) |-> Degree(i)])

\* modularity_gain with the bug of swapping the weights into the two communities
modularity_gain_Swapped(nd, from_comm, to_comm, comms) ==
    LET neighbor_comms == NeighborComms(nd, comms)
        k_i == Degree(nd)
        k_i_in_to == IF from_comm \in DOMAIN neighbor_comms
                     THEN neighbor_comms[from_comm] ELSE 0
        k_i_in_from == IF to_comm \in DOMAIN neighbor_comms
                       THEN neighbor_comms[to_comm] ELSE 0
        sigma_to == Sigma(to_comm, comms)
        sigma_from == Sigma(from_comm, comms)
    IN  TotalWeight * (k_i_in_to - k_i_in_from)
        - k_i * (sigma_to - sigma_from + k_i)

\* modularity_gain, lines 117-149.  The code returns
\*   (k_i_in_to - k_i_in_from) / (2m) - k_i (sigma_to - sigma_from + k_i) / (2 m^2);
\* this is that value times 2 m^2, a positive factor common to every gain of a
\* run, so `gain > best_gain` and `best_gain > 0.0` compare as in the code.
modularity_gain(nd, from_comm, to_comm, comms) ==
    LET neighbor_comms == NeighborComms(nd, comms)
        k_i == Degree(nd)
        k_i_in_to == IF to_comm \in DOMAIN neighbor_comms
                     THEN neighbor_comms[to_comm] ELSE 0
        k_i_in_from == IF from_comm \in DOMAIN neighbor_comms
                       THEN neighbor_comms[from_comm] ELSE 0
        sigma_to == Sigma(to_comm, comms)
        sigma_from == Sigma(from_comm, comms)
    IN  TotalWeight * (k_i_in_to - k_i_in_from)
        - k_i * (sigma_to - sigma_from + k_i)

\* whether a candidate replaces the best so far, line 83
Better(gain, best_gain) == gain > best_gain

\* the scan taking the first community enumerated as an improvement, without
\* computing a gain
ScanNeighborComms_TakeFirst(order, i, nd, best) ==
    IF order = <<>> THEN best
    ELSE [best_comm |-> order[1], best_gain |-> 1]

\* the loop of lines 68-87 over neighbor_comms enumerated in `order`
RECURSIVE ScanNeighborComms(_, _, _, _)
ScanNeighborComms(order, i, nd, best) ==
    IF i > Len(order) THEN best
    ELSE LET comm == order[i]
             current_comm == communities[nd]
         IN  IF comm = current_comm
             THEN ScanNeighborComms(order, i + 1, nd, best)
             ELSE LET gain == modularity_gain(nd, current_comm, comm, communities)
                  IN  IF Better(gain, best.best_gain)
                      THEN ScanNeighborComms(order, i + 1, nd,
                               [best_comm |-> comm, best_gain |-> gain])
                      ELSE ScanNeighborComms(order, i + 1, nd, best)

\* LouvainDetector::new(graph), for every GraphData within the bounds
LouvNew ==
    /\ \E n \in 0..MaxNodes :
         /\ entities = [i \in 1..n |-> EntityId(i - 1)]
         /\ edges \in GraphEdges(n)
    /\ communities = <<>>
    /\ improved = FALSE
    /\ iteration = 0
    /\ node = 0
    /\ lpc = "new"
    /\ result = <<>>
    /\ pass_moves = 0
    /\ total_moves = 0

\* detect_communities, lines 18-22: no entity, the empty map
DetectEmpty ==
    /\ lpc = "new"
    /\ NumNodes = 0
    /\ result' = <<>>
    /\ lpc' = "done"
    /\ UNCHANGED <<entities, edges, communities, improved, iteration, node,
                   pass_moves, total_moves>>

\* the initial assignment with the bug of one community for all nodes
InitialCommunities_AllZero == [i \in 0..(NumNodes - 1) |-> 0]

\* the initial assignment, line 25: each node in its own community
InitialCommunities == [i \in 0..(NumNodes - 1) |-> i]

\* detect_communities, lines 24-47: the initial assignment
DetectStart ==
    /\ lpc = "new"
    /\ NumNodes > 0
    /\ communities' = InitialCommunities
    /\ improved' = TRUE
    /\ iteration' = 0
    /\ lpc' = "while"
    /\ UNCHANGED <<entities, edges, node, result, pass_moves, total_moves>>

\* the loop condition without the test of improved: only the cap ends the loop
LoopCondition_CapOnly == iteration < MAX_ITERATIONS

\* the loop condition of line 50
LoopCondition == improved /\ iteration < MAX_ITERATIONS

\* line 50-52: another pass starts
PassStart ==
    /\ lpc = "while"
    /\ LoopCondition
    /\ improved' = FALSE
    /\ iteration' = iteration + 1
    /\ node' = 0
    /\ pass_moves' = 0
    /\ lpc' = "for"
    /\ UNCHANGED <<entities, edges, communities, result, total_moves>>

\* lines 55-94: the body of the for loop for one node.  neighbor_comms is a
\* HashMap: the loop of line 68 meets its keys in an arbitrary order.
VisitNode ==
    /\ lpc = "for"
    /\ node < NumNodes
    /\ \E order \in Orders(DOMAIN NeighborComms(node, communities)) :
         LET current_comm == communities[node]
             best == ScanNeighborComms(order, 1, node,
                         [best_comm |-> current_comm, best_gain |-> 0])
         IN  IF best.best_comm # current_comm /\ best.best_gain > 0
             THEN /\ communities' = [communities EXCEPT ![node] = best.best_comm]
                  /\ improved' = TRUE
                  /\ pass_moves' = pass_moves + 1
                  /\ total_moves' = total_moves + 1
             ELSE UNCHANGED <<communities, improved, pass_moves, total_moves>>
    /\ node' = node + 1
    /\ lpc' = IF node + 1 = NumNodes THEN "while" ELSE "for"
    /\ UNCHANGED <<entities, edges, iteration, result>>

\* the result map of lines 104-110 under the renumbering comm_mapping
ResultMap(comm_mapping) ==
    [id \in {entities[i] : i \in 1..NumNodes} |->
        comm_mapping[communities[(CHOOSE i \in 1..NumNodes : entities[i] = id) - 1]]]

\* comm_mapping with the bug of keeping the old ids
CommMapping_Identity(order) == [old_id \in Range(communities) |-> old_id]

\* comm_mapping, lines 98-102: unique_comms.iter().enumerate(), with the
\* HashSet unique_comms enumerated in `order`
CommMapping(order) ==
    [old_id \in Range(communities) |->
        (CHOOSE new_id \in DOMAIN order : order[new_id] = old_id) - 1]

\* lines 97-113: the loop has ended; the surviving ids are renumbered in the
\* order in which the HashSet unique_comms enumerates them
Renumber ==
    /\ lpc = "while"
    /\ ~LoopCondition
    /\ \E order \in Orders(Range(communities)) :
         result' = ResultMap(CommMapping(order))
    /\ lpc' = "done"
    /\ UNCHANGED <<entities, edges, communities, improved, iteration, node,
                   pass_moves, total_moves>>

LouvNext ==
    \/ DetectEmpty /\ UNCHANGED notLouvVars
    \/ DetectStart /\ UNCHANGED notLouvVars
    \/ PassStart /\ UNCHANGED notLouvVars
    \/ VisitNode /\ UNCHANGED notLouvVars
    \/ Renumber /\ UNCHANGED notLouvVars

LouvInit == LouvNew /\ IdleExcept({"louv"})

SpecLouvain == LouvInit /\ [][LouvNext]_vars

\* LouvainDetector::new(graph), for the GraphData values of up to MaxFairNodes
\* entities and MaxFairEdges edges
LouvFairNew ==
    /\ \E n \in 0..MaxFairNodes :
         /\ entities = [i \in 1..n |-> EntityId(i - 1)]
         /\ edges \in UNION {[1..k -> (0..(n - 1)) \X (0..(n - 1))] :
                                k \in 0..MaxFairEdges}
    /\ communities = <<>>
    /\ improved = FALSE
    /\ iteration = 0
    /\ node = 0
    /\ lpc = "new"
    /\ result = <<>>
    /\ pass_moves = 0
    /\ total_moves = 0

LouvFairInit == LouvFairNew /\ IdleExcept({"louv"})

\* detect_communities is a call that runs on: no step of it waits for anything
SpecLouvainFair == LouvFairInit /\ [][LouvNext]_vars /\ WF_vars(LouvNext)

\* detect_communities is called again, on a new LouvainDetector built from the
\* same GraphData; the map of the first run is kept for comparison
RunAgain ==
    /\ lpc = "done"
    /\ runs = 0
    /\ runs' = 1
    /\ first_result' = result
    /\ communities' = <<>>
    /\ improved' = FALSE
    /\ iteration' = 0
    /\ node' = 0
    /\ lpc' = "new"
    /\ result' = <<>>
    /\ pass_moves' = 0
    /\ total_moves' = 0
    /\ UNCHANGED <<entities, edges>>

TwoRunsNext ==
    \/ LouvNext
    \/ RunAgain
       /\ UNCHANGED notTwoRunsVars

\* the GraphData values with n entities whose edges are distinct pairs of
\* distinct entities, each pair pushed once, lower index first, in ascending
\* order
SimpleGraphEdges(n) ==
    {es \in UNION {[1..k -> (0..(n - 1)) \X (0..(n - 1))] : k \in 0..MaxRerunEdges} :
        /\ \A i \in DOMAIN es : es[i][1] < es[i][2]
        /\ \A i, j \in DOMAIN es :
             i < j => \/ es[i][1] < es[j][1]
                      \/ es[i][1] = es[j][1] /\ es[i][2] < es[j][2]}

\* LouvainDetector::new, over such a GraphData
TwoRunsNew ==
    /\ \E n \in 0..MaxRerunNodes :
         /\ entities = [i \in 1..n |-> EntityId(i - 1)]
         /\ edges \in SimpleGraphEdges(n)
    /\ communities = <<>>
    /\ improved = FALSE
    /\ iteration = 0
    /\ node = 0
    /\ lpc = "new"
    /\ result = <<>>
    /\ pass_moves = 0
    /\ total_moves = 0

TwoRunsInit == TwoRunsNew /\ RerunIdle /\ IdleExcept({"louv", "rerun"})

SpecTwoRuns == TwoRunsInit /\ [][TwoRunsNext]_vars

(***************************************************************************)
(* LocalSearchEngine::search.  The embedding service, the vector store,    *)
(* the graph store and the LLM are the environment: each call to one of    *)
(* them either answers or fails.  The points of the vector store's answer  *)
(* are drawn as the loop of line 71 reads them.                            *)
(***************************************************************************)
\* the characters of a point's entity_ids payload
PayloadChars == {"a", ",", " "}

Payloads == UNION {[1..n -> PayloadChars] : n \in 0..MaxPayloadLen}

\* the entity ids of the graph store
StoreIds == {<<"a">>, <<"a", "a">>, <<"b">>}

\* the RELATION edges the graph store can hold
Stores == {r \in SUBSET (StoreIds \X StoreIds) : Cardinality(r) <= MaxRelations}

\* the position of the first sep in s, 0 if there is none
RECURSIVE Find(_, _, _)
Find(s, sep, i) ==
    IF i > Len(s) THEN 0 ELSE IF s[i] = sep THEN i ELSE Find(s, sep, i + 1)

\* str::split(sep), collected: the pieces between the separators
RECURSIVE split(_, _)
split(s, sep) ==
    LET k == Find(s, sep, 1) IN
    IF k = 0 THEN <<s>>
    ELSE <<SubSeq(s, 1, k - 1)>> \o split(SubSeq(s, k + 1, Len(s)), sep)

\* lines 73-77: the entity ids one point adds to the seed set
SeedIds(payload) ==
    LET pieces == split(payload, ",") IN
    {trim(pieces[i]) : i \in {j \in DOMAIN pieces : pieces[j] # <<>>}}

\* the i-th point (from 0) of an answer: its payload fields as parsed by
\* search_qdrant_rest, an absent chunk_id or text being the empty string
PointValues(i) ==
    [score : {MaxPoints - i},
     chunk_id : {"", "chunk" \o ToString(i)},
     text : {"", "text" \o ToString(i)},
     entity_ids : Payloads]

\* search is called, over any graph store within the bounds
LsStart ==
    /\ store_relations \in Stores
    /\ spc = "embed"
    /\ chunks_retrieved = 0
    /\ entity_ids = {}
    /\ sources = <<>>
    /\ expanded_entities = {}
    /\ context = <<>>
    /\ points_read = 0
    /\ hops = 0
    /\ search_result = [kind |-> "none"]
    /\ graph_queries = 0
    /\ llm_calls = 0
    /\ failed = "none"
    /\ defaulted = FALSE

\* a call failed and its error is propagated by `?`: search returns Err
Abort(stage) ==
    /\ failed' = stage
    /\ spc' = "err"
    /\ search_result' = [kind |-> "Err"]

\* line 58: the query is embedded
EmbedOk ==
    /\ spc = "embed"
    /\ spc' = "vector"
    /\ UNCHANGED <<store_relations, chunks_retrieved, entity_ids, sources,
                   expanded_entities, context, points_read, hops, search_result,
                   graph_queries, llm_calls, failed,
                   defaulted>>

\* lines 58-59: the embedding call fails
EmbedFail ==
    /\ spc = "embed"
    /\ Abort("embed")
    /\ UNCHANGED <<store_relations, chunks_retrieved, entity_ids, sources,
                   expanded_entities, context, points_read, hops,
                   graph_queries, llm_calls,
                   defaulted>>

\* lines 62-65: the vector store answers with up to top_k points
VectorSearchOk ==
    /\ spc = "vector"
    /\ \E n \in 0..MaxPoints : chunks_retrieved' = n
    /\ spc' = "points"
    /\ UNCHANGED <<store_relations, entity_ids, sources, expanded_entities,
                   context, points_read, hops, search_result, graph_queries,
                   llm_calls, failed,
                   defaulted>>

\* lines 62-63 and 130-190: the request fails, the status is not a success or
\* the answer does not parse
VectorSearchFail ==
    /\ spc = "vector"
    /\ Abort("vector")
    /\ UNCHANGED <<store_relations, chunks_retrieved, entity_ids, sources,
                   expanded_entities, context, points_read, hops,
                   graph_queries, llm_calls,
                   defaulted>>

\* ReadPoint with the source put in front of the list instead of behind it
ReadPoint_Prepend ==
    /\ spc = "points"
    /\ points_read < chunks_retrieved
    /\ \E point \in PointValues(points_read) :
         /\ entity_ids' = entity_ids \cup SeedIds(point.entity_ids)
         /\ defaulted' = (defaulted \/ point.chunk_id = "" \/ point.text = "")
         /\ sources' = IF point.chunk_id # "" /\ point.text # ""
                       THEN <<[chunk_id |-> point.chunk_id,
                               text |-> point.text,
                               relevance_score |-> point.score]>> \o sources
                       ELSE sources
    /\ points_read' = points_read + 1
    /\ UNCHANGED <<store_relations, spc, chunks_retrieved, expanded_entities,
                   context, hops, search_result, graph_queries, llm_calls, failed>>

\* lines 71-87: the body of the loop for one point
ReadPoint ==
    /\ spc = "points"
    /\ points_read < chunks_retrieved
    /\ \E point \in PointValues(points_read) :
         /\ entity_ids' = entity_ids \cup SeedIds(point.entity_ids)
         /\ defaulted' = (defaulted \/ point.chunk_id = "" \/ point.text = "")
         /\ sources' = IF point.chunk_id # "" /\ point.text # ""
                       THEN Append(sources, [chunk_id |-> point.chunk_id,
                                             text |-> point.text,
                                             relevance_score |-> point.score])
                       ELSE sources
    /\ points_read' = points_read + 1
    /\ UNCHANGED <<store_relations, spc, chunks_retrieved, expanded_entities,
                   context, hops, search_result, graph_queries, llm_calls, failed>>

\* NonEmpty with the emptiness tests dropped: every set is queried for
NonEmpty_Always(ids) == ids = ids

\* whether a set of entity ids is worth a graph-store query: the tests of
\* lines 92, 100 and 106 and of lines 198, 226 and 255
NonEmpty(ids) == ids # {}

\* lines 89-96: the seed set is complete; expansion starts or is skipped
SeedsDone ==
    /\ spc = "points"
    /\ points_read = chunks_retrieved
    /\ IF NonEmpty(entity_ids)
       THEN /\ expanded_entities' = entity_ids
            /\ spc' = "expand"
       ELSE /\ expanded_entities' = {}
            /\ spc' = "details"
    /\ hops' = 0
    /\ UNCHANGED <<store_relations, chunks_retrieved, entity_ids, sources,
                   context, points_read, search_result, graph_queries,
                   llm_calls, failed,
                   defaulted>>

\* the query following the relations from source to target only
NeighborIds_Outgoing(ids) ==
    {r[2] : r \in {q \in store_relations : q[1] \in ids}}

\* the answer of the query of lines 202-208: the DISTINCT neighbours, in either
\* direction, of the entities of ids
NeighborIds(ids) ==
    {r[2] : r \in {q \in store_relations : q[1] \in ids}}
    \cup {r[1] : r \in {q \in store_relations : q[2] \in ids}}

\* expand_graph, lines 195-217: one hop, the query answers
ExpandHopOk ==
    /\ spc = "expand"
    /\ hops < 2
    /\ NonEmpty(expanded_entities)
    /\ graph_queries' = graph_queries + 1
    /\ expanded_entities' = expanded_entities \cup NeighborIds(expanded_entities)
    /\ hops' = hops + 1
    /\ spc' = IF hops + 1 = 2 THEN "details" ELSE "expand"
    /\ UNCHANGED <<store_relations, chunks_retrieved, entity_ids, sources,
                   context, points_read, search_result, llm_calls, failed,
                   defaulted>>

\* ExpandHopFail with the error swallowed: the hop counts as answered with no
\* neighbour and search goes on
ExpandHopFail_Swallowed ==
    /\ spc = "expand"
    /\ hops < 2
    /\ NonEmpty(expanded_entities)
    /\ graph_queries' = graph_queries + 1
    /\ failed' = "expand"
    /\ hops' = hops + 1
    /\ spc' = IF hops + 1 = 2 THEN "details" ELSE "expand"
    /\ UNCHANGED <<store_relations, chunks_retrieved, entity_ids, sources,
                   expanded_entities, context, points_read, search_result,
                   llm_calls,
                   defaulted>>

\* expand_graph, lines 210-212: the query, or the reading of its rows, fails
ExpandHopFail ==
    /\ spc = "expand"
    /\ hops < 2
    /\ NonEmpty(expanded_entities)
    /\ graph_queries' = graph_queries + 1
    /\ Abort("expand")
    /\ UNCHANGED <<store_relations, chunks_retrieved, entity_ids, sources,
                   expanded_entities, context, points_read, hops, llm_calls,
                   defaulted>>

\* the entities of the graph store: the endpoints of its relations
StoreEntities == {r[1] : r \in store_relations} \cup {r[2] : r \in store_relations}

\* lines 100-104 and 222-249: the entity details are fetched, or skipped for an
\* empty set; context keeps the number of detail lines
DetailsOk ==
    /\ spc = "details"
    /\ IF NonEmpty(expanded_entities)
       THEN /\ graph_queries' = graph_queries + 1
            /\ context' = <<Cardinality(expanded_entities \cap StoreEntities)>>
       ELSE /\ graph_queries' = graph_queries
            /\ context' = <<0>>
    /\ spc' = "relations"
    /\ UNCHANGED <<store_relations, chunks_retrieved, entity_ids, sources,
                   expanded_entities, points_read, hops, search_result,
                   llm_calls, failed,
                   defaulted>>

\* lines 238-242: the query fails, or a row has no name
DetailsFail ==
    /\ spc = "details"
    /\ NonEmpty(expanded_entities)
    /\ graph_queries' = graph_queries + 1
    /\ Abort("details")
    /\ UNCHANGED <<store_relations, chunks_retrieved, entity_ids, sources,
                   expanded_entities, context, points_read, hops, llm_calls,
                   defaulted>>

\* lines 106-110 and 251-280: the relations within the expanded set are fetched
\* (at most 50), or skipped; context keeps their number
RelationsOk ==
    /\ spc = "relations"
    /\ IF NonEmpty(expanded_entities)
       THEN /\ graph_queries' = graph_queries + 1
            /\ context' = Append(context,
                   Min(50, Cardinality({r \in store_relations :
                       r[1] \in expanded_entities /\ r[2] \in expanded_entities})))
       ELSE /\ graph_queries' = graph_queries
            /\ context' = Append(context, 0)
    /\ spc' = "generate"
    /\ UNCHANGED <<store_relations, chunks_retrieved, entity_ids, sources,
                   expanded_entities, points_read, hops, search_result,
                   llm_calls, failed,
                   defaulted>>

\* lines 268-274: the query fails, or a row lacks source, relation or target
RelationsFail ==
    /\ spc = "relations"
    /\ NonEmpty(expanded_entities)
    /\ graph_queries' = graph_queries + 1
    /\ Abort("relations")
    /\ UNCHANGED <<store_relations, chunks_retrieved, entity_ids, sources,
                   expanded_entities, context, points_read, hops, llm_calls,
                   defaulted>>

\* lines 113-127: the context is built, the LLM answers, search returns Ok
GenerateOk ==
    /\ spc = "generate"
    /\ llm_calls' = llm_calls + 1
    /\ search_result' =
           [kind |-> "Ok",
            sources |-> sources,
            trace |-> [chunks_retrieved |-> chunks_retrieved,
                       entities_found |-> Cardinality(entity_ids),
                       entities_expanded |-> Cardinality(expanded_entities)]]
    /\ spc' = "ok"
    /\ UNCHANGED <<store_relations, chunks_retrieved, entity_ids, sources,
                   expanded_entities, context, points_read, hops,
                   graph_queries, failed,
                   defaulted>>

\* line 116: the LLM call fails
GenerateFail ==
    /\ spc = "generate"
    /\ llm_calls' = llm_calls + 1
    /\ Abort("generate")
    /\ UNCHANGED <<store_relations, chunks_retrieved, entity_ids, sources,
                   expanded_entities, context, points_read, hops, graph_queries,
                   defaulted>>

LsNext ==
    \/ EmbedOk /\ UNCHANGED notLsVars
    \/ EmbedFail /\ UNCHANGED notLsVars
    \/ VectorSearchOk /\ UNCHANGED notLsVars
    \/ VectorSearchFail /\ UNCHANGED notLsVars
    \/ ReadPoint /\ UNCHANGED notLsVars
    \/ SeedsDone /\ UNCHANGED notLsVars
    \/ ExpandHopOk /\ UNCHANGED notLsVars
    \/ ExpandHopFail /\ UNCHANGED notLsVars
    \/ DetailsOk /\ UNCHANGED notLsVars
    \/ DetailsFail /\ UNCHANGED notLsVars
    \/ RelationsOk /\ UNCHANGED notLsVars
    \/ RelationsFail /\ UNCHANGED notLsVars
    \/ GenerateOk /\ UNCHANGED notLsVars
    \/ GenerateFail /\ UNCHANGED notLsVars

LsInit == LsStart /\ IdleExcept({"ls"})

SpecLocalSearch == LsInit /\ [][LsNext]_vars

\* the entity ids of a graph store large enough for a chain of three relations
ExpandIds == {<<"a">>, <<"a", "a">>, <<"b">>, <<"b", "b">>}

\* search at line 92, about to call expand_graph(&entity_ids, 2): one chunk was
\* retrieved; its payload named the non-empty seed set and had no text, so
\* that it gave no source
ExpandStart ==
    /\ store_relations \in {r \in SUBSET (ExpandIds \X ExpandIds) :
                                Cardinality(r) <= MaxExpandRelations}
    /\ spc = "expand"
    /\ chunks_retrieved = 1
    /\ entity_ids \in SUBSET ExpandIds \ {{}}
    /\ sources = <<>>
    /\ expanded_entities = entity_ids
    /\ context = <<>>
    /\ points_read = 1
    /\ hops = 0
    /\ search_result = [kind |-> "none"]
    /\ graph_queries = 0
    /\ llm_calls = 0
    /\ failed = "none"
    /\ defaulted = TRUE

\* expand_graph, lines 192-220
ExpandNext ==
    \/ ExpandHopOk /\ UNCHANGED notLsVars
    \/ ExpandHopFail /\ UNCHANGED notLsVars

ExpandInit == ExpandStart /\ IdleExcept({"ls"})

SpecExpand == ExpandInit /\ [][ExpandNext]_vars

(***************************************************************************)
(* f32 arithmetic, scaled down.  A float is kept as the integer number of  *)
(* units it holds, a unit being the smallest positive subnormal; the       *)
(* format has Precision significand bits, One is Pow2(UnitExp) units and   *)
(* the largest finite value is (Pow2(Precision) - 1) * Pow2(MaxShift)      *)
(* units.  Every operation rounds the exact result to the nearest          *)
(* representable value, ties to even, overflows to infinity and follows    *)
(* the IEEE 754 rules for infinities and NaN.  The sign of zero is not     *)
(* kept: -0.0 and 0.0 agree under every comparison the code makes.         *)
(***************************************************************************)
RECURSIVE Pow2(_)
Pow2(k) == IF k = 0 THEN 1 ELSE 2 * Pow2(k - 1)

\* f32 1.0
One == Pow2(UnitExp)

\* f32::MAX
MaxFinite == (Pow2(Precision) - 1) * Pow2(MaxShift)

\* f32::INFINITY, one binade above every finite value
Inf == Pow2(Precision) * Pow2(MaxShift)

\* f32::NAN, a value apart from all others
NaN == 2 * Inf

\* the magnitudes a finite f32 can hold
Magnitudes == {m * Pow2(k) : m \in 0..(Pow2(Precision) - 1), k \in 0..MaxShift}

\* the finite f32 values
Finite == Magnitudes \cup {0 - m : m \in Magnitudes}

\* the largest and the smallest element of a set of numbers
SetMax(S) == CHOOSE x \in S : \A y \in S : y <= x

SetMin(S) == CHOOSE x \in S : \A y \in S : x <= y

Abs(x) == IF x < 0 THEN 0 - x ELSE x

Sign(x) == IF x < 0 THEN 0 - 1 ELSE 1

\* the exponent of the binade of num / den: the least k with
\* num / den < Pow2(Precision + k)
RECURSIVE Binade(_, _, _)
Binade(num, den, k) ==
    IF k > MaxShift \/ num < den * Pow2(Precision + k) THEN k
    ELSE Binade(num, den, k + 1)

\* the magnitude nearest to num / den (num >= 0, den > 0), ties to the even
\* significand; Inf when it is beyond the finite range
RoundRatio(num, den) ==
    LET k == Binade(num, den, 0)
        s == den * Pow2(k)
        q == num \div s
        r == num % s
        significand == IF 2 * r < s THEN q
                       ELSE IF 2 * r > s THEN q + 1
                       ELSE IF q % 2 = 0 THEN q ELSE q + 1
    IN  IF k > MaxShift THEN Inf ELSE Min(Inf, significand * Pow2(k))

\* f32 multiplication
fmul(x, y) ==
    IF x = NaN \/ y = NaN THEN NaN
    ELSE IF Abs(x) = Inf \/ Abs(y) = Inf
         THEN IF x = 0 \/ y = 0 THEN NaN ELSE Sign(x) * Sign(y) * Inf
    ELSE Sign(x) * Sign(y) * RoundRatio(Abs(x) * Abs(y), One)

\* f32 addition
fadd(x, y) ==
    IF x = NaN \/ y = NaN THEN NaN
    ELSE IF Abs(x) = Inf /\ Abs(y) = Inf THEN IF x = y THEN x ELSE NaN
    ELSE IF Abs(x) = Inf THEN x
    ELSE IF Abs(y) = Inf THEN y
    ELSE Sign(x + y) * RoundRatio(Abs(x + y), 1)

\* f32 division
fdiv(x, y) ==
    IF x = NaN \/ y = NaN THEN NaN
    ELSE IF Abs(x) = Inf THEN IF Abs(y) = Inf THEN NaN ELSE Sign(x) * Sign(y) * Inf
    ELSE IF Abs(y) = Inf THEN 0
    ELSE IF y = 0 THEN IF x = 0 THEN NaN ELSE Sign(x) * Inf
    ELSE Sign(x) * Sign(y) * RoundRatio(Abs(x) * One, Abs(y))

\* f32::sqrt, correctly rounded: of the two magnitudes around the root of
\* x * One (in units), the nearer one, ties to the even significand
fsqrt(x) ==
    IF x = NaN \/ x < 0 THEN NaN
    ELSE IF x = Inf THEN Inf
    ELSE LET n == x * One
             lo == SetMax({m \in Magnitudes : m * m <= n})
             above == {m \in Magnitudes : m > lo}
             hi == IF above = {} THEN lo ELSE SetMin(above)
             lo_even == (lo \div Pow2(Binade(lo, 1, 0))) % 2 = 0
         IN  IF lo * lo = n \/ 4 * n < (lo + hi) * (lo + hi) THEN lo
             ELSE IF 4 * n > (lo + hi) * (lo + hi) THEN hi
             ELSE IF lo_even THEN lo ELSE hi

\* Iterator::sum over f32: a left fold with + from 0.0
RECURSIVE fsum(_)
fsum(s) == IF s = <<>> THEN 0 ELSE fadd(fsum(SubSeq(s, 1, Len(s) - 1)), s[Len(s)])

\* GlobalSearchEngine::cosine_similarity, lines 114-124
cosine_similarity(a, b) ==
    LET dot == fsum([i \in 1..Min(Len(a), Len(b)) |-> fmul(a[i], b[i])])
        mag_a == fsqrt(fsum([i \in 1..Len(a) |-> fmul(a[i], a[i])]))
        mag_b == fsqrt(fsum([i \in 1..Len(b) |-> fmul(b[i], b[i])]))
    IN  IF mag_a = 0 \/ mag_b = 0 THEN 0
        ELSE fdiv(dot, fmul(mag_a, mag_b))

\* the components of the vectors cosine_similarity is applied to: 0.0, the
\* smallest positive value, 1.0, 1.5, -1.0 and the largest finite value
Components == {0, 1, One, One + One \div 2, 0 - One, MaxFinite}

Vectors == UNION {[1..n -> Components] : n \in 0..MaxDim}

\* cosine_similarity is called on a pair of vectors
CosineStart ==
    /\ vec_a \in Vectors
    /\ vec_b \in Vectors
    /\ similarity = 0
    /\ cpc = "call"

\* the call returns
CosineCall ==
    /\ cpc = "call"
    /\ similarity' = cosine_similarity(vec_a, vec_b)
    /\ cpc' = "done"
    /\ UNCHANGED <<vec_a, vec_b, notCosVars>>

CosInit == CosineStart /\ IdleExcept({"cos"})

SpecCosine == CosInit /\ [][CosineCall]_vars

(***************************************************************************)
(* GlobalSearchEngine::search.  The summaries directory, the embedding     *)
(* service and the LLM are the environment.                                *)
(***************************************************************************)
\* the vectors the embedding service answers with
Embeddings ==
    {<<One, 0>>, <<0, One>>, <<One, One>>, <<0 - One, 0>>, <<0, 0>>,
     <<MaxFinite, MaxFinite>>}

\* the states of the directory of the summaries: not created, or holding the
\* summaries of communities 0..n-1
DiskStates ==
    {[exists |-> FALSE, files |-> <<>>]}
    \cup {[exists |-> TRUE, files |-> [id \in 0..(n - 1) |-> 1]] :
             n \in 0..MaxSummaries}

\* search is called with some top_k, over some state of the directory
GsStart ==
    /\ \E disk \in DiskStates :
         /\ dir_exists = disk.exists
         /\ files = disk.files
    /\ top_k \in 0..MaxTopK
    /\ gpc = "load"
    /\ summaries = <<>>
    /\ query_embedding = <<>>
    /\ scored_summaries = <<>>
    /\ global_result = [kind |-> "none"]
    /\ gs_failed = "none"

\* an error is propagated by `?`: search returns Err
GsAbort(stage) ==
    /\ gs_failed' = stage
    /\ gpc' = "err"
    /\ global_result' = [kind |-> "Err"]

\* load_community_summaries, lines 95-112: the summaries are read in the order
\* of the directory; a summary is kept as its community_id
LoadOk ==
    /\ gpc = "load"
    /\ dir_exists
    /\ \E order \in Orders(DOMAIN files) : summaries' = order
    /\ gpc' = "embed"
    /\ UNCHANGED <<top_k, query_embedding, scored_summaries, global_result,
                   gs_failed>>

\* lines 99-106: the directory does not exist; or it or a file cannot be
\* read, or a file does not parse
LoadFail ==
    /\ gpc = "load"
    /\ GsAbort(IF dir_exists THEN "load" ELSE "no directory")
    /\ UNCHANGED <<top_k, summaries, query_embedding, scored_summaries>>

\* line 48: the query is embedded
EmbedQueryOk ==
    /\ gpc = "embed"
    /\ query_embedding' \in Embeddings
    /\ gpc' = "score"
    /\ UNCHANGED <<top_k, summaries, scored_summaries, global_result,
                   gs_failed>>

\* line 48: the embedding call fails
EmbedQueryFail ==
    /\ gpc = "embed"
    /\ GsAbort("embed")
    /\ UNCHANGED <<top_k, summaries, query_embedding, scored_summaries>>

\* lines 53-58: the body of the loop for the next summary
ScoreSummaryOk ==
    /\ gpc = "score"
    /\ Len(scored_summaries) < Len(summaries)
    /\ \E summary_embedding \in Embeddings :
         scored_summaries' = Append(scored_summaries,
             [community_id |-> summaries[Len(scored_summaries) + 1],
              relevance_score |-> cosine_similarity(query_embedding,
                                                    summary_embedding)])
    /\ UNCHANGED <<top_k, gpc, summaries, query_embedding, global_result,
                   gs_failed>>

\* line 54: the embedding call for a summary fails
ScoreSummaryFail ==
    /\ gpc = "score"
    /\ Len(scored_summaries) < Len(summaries)
    /\ GsAbort("score")
    /\ UNCHANGED <<top_k, summaries, query_embedding, scored_summaries>>

\* partial_cmp(...).unwrap() panics when one of the scores is NaN; a sort of
\* two or more elements compares every element at least once
SortPanics(scored) ==
    Len(scored) >= 2 /\ \E i \in DOMAIN scored : scored[i].relevance_score = NaN

\* the comparator of line 61 puts x before y
Before_Ascending(x, y) == x.relevance_score < y.relevance_score

Before(x, y) == x.relevance_score > y.relevance_score

\* x inserted into the sorted s, behind the elements it is not put before
RECURSIVE InsertSorted(_, _)
InsertSorted(s, x) ==
    IF s = <<>> THEN <<x>>
    ELSE IF Before(x, s[Len(s)])
         THEN Append(InsertSorted(SubSeq(s, 1, Len(s) - 1), x), s[Len(s)])
         ELSE Append(s, x)

\* slice::sort_by, a stable sort
RECURSIVE sort_by(_)
sort_by(s) ==
    IF s = <<>> THEN <<>>
    ELSE InsertSorted(sort_by(SubSeq(s, 1, Len(s) - 1)), s[Len(s)])

\* Iterator::take
take(s, n) == SubSeq(s, 1, Min(n, Len(s)))

\* line 61: the sort panics
SortPanic ==
    /\ gpc = "score"
    /\ Len(scored_summaries) = Len(summaries)
    /\ SortPanics(scored_summaries)
    /\ gpc' = "panic"
    /\ UNCHANGED <<top_k, summaries, query_embedding, scored_summaries,
                   global_result, gs_failed>>

\* lines 61-74: the scored summaries are sorted, the first top_k are kept and
\* the LLM call for the synthesis is made
SortAndTake ==
    /\ gpc = "score"
    /\ Len(scored_summaries) = Len(summaries)
    /\ ~SortPanics(scored_summaries)
    /\ scored_summaries' = take(sort_by(scored_summaries), top_k)
    /\ gpc' = "generate"
    /\ UNCHANGED <<top_k, summaries, query_embedding, global_result, gs_failed>>

\* lines 74-92: the LLM answers, search returns Ok
SynthesisOk ==
    /\ gpc = "generate"
    /\ global_result' =
           [kind |-> "Ok",
            communities |-> scored_summaries,
            trace |-> [communities_searched |-> Len(summaries),
                       communities_used |-> Len(scored_summaries)]]
    /\ gpc' = "ok"
    /\ UNCHANGED <<top_k, summaries, query_embedding, scored_summaries,
                   gs_failed>>

\* line 74: the LLM call fails
SynthesisFail ==
    /\ gpc = "generate"
    /\ GsAbort("generate")
    /\ UNCHANGED <<top_k, summaries, query_embedding, scored_summaries>>

GsNext ==
    \/ LoadOk /\ UNCHANGED notGsVars
    \/ LoadFail /\ UNCHANGED notGsVars
    \/ EmbedQueryOk /\ UNCHANGED notGsVars
    \/ EmbedQueryFail /\ UNCHANGED notGsVars
    \/ ScoreSummaryOk /\ UNCHANGED notGsVars
    \/ ScoreSummaryFail /\ UNCHANGED notGsVars
    \/ SortPanic /\ UNCHANGED notGsVars
    \/ SortAndTake /\ UNCHANGED notGsVars
    \/ SynthesisOk /\ UNCHANGED notGsVars
    \/ SynthesisFail /\ UNCHANGED notGsVars

GsInit == GsStart /\ IdleExcept({"gs", "disk"})

SpecGlobalSearch == GsInit /\ [][GsNext]_vars

(***************************************************************************)
(* The detect_communities handler of the API (POST /communities): it runs  *)
(* detect_and_summarize and writes one file per summary.  The graph store  *)
(* can change between two requests, so each run can find any number of     *)
(* communities.                                                            *)
(***************************************************************************)
\* main.rs lines 488-494: detect_and_summarize returns the summaries of the
\* communities 0..k-1, in the order of its community_groups map
DetectOk ==
    /\ dpc = "ready"
    /\ run_no < MaxRuns
    /\ run_no' = run_no + 1
    /\ \E k \in 0..MaxSummaries : \E order \in Orders(0..(k - 1)) :
         /\ pending' = order
         /\ latest' = 0..(k - 1)
    /\ dpc' = "mkdir"
    /\ UNCHANGED <<completed, dir_exists, files>>

\* lines 488-494: detect_and_summarize fails; the handler answers 500
DetectFail ==
    /\ dpc = "ready"
    /\ run_no < MaxRuns
    /\ run_no' = run_no + 1
    /\ UNCHANGED <<dpc, pending, completed, latest, dir_exists, files>>

\* lines 497-500: create_dir_all
CreateDirOk ==
    /\ dpc = "mkdir"
    /\ dir_exists' = TRUE
    /\ dpc' = "write"
    /\ UNCHANGED <<pending, run_no, completed, latest, files>>

\* lines 498-500: create_dir_all fails; the handler answers 500
CreateDirFail ==
    /\ dpc = "mkdir"
    /\ dpc' = "ready"
    /\ pending' = <<>>
    /\ UNCHANGED <<run_no, completed, latest, dir_exists, files>>

\* fs::write: the file of community id is created or replaced
WriteFile(id) ==
    IF id \in DOMAIN files THEN [files EXCEPT ![id] = run_no]
    ELSE files @@ (id :> run_no)

\* lines 502-509: the body of the loop for the next summary
WriteSummaryOk ==
    /\ dpc = "write"
    /\ pending # <<>>
    /\ files' = WriteFile(Head(pending))
    /\ pending' = Tail(pending)
    /\ UNCHANGED <<dpc, run_no, completed, latest, dir_exists>>

\* lines 504-508: the summary cannot be serialised or written; the handler
\* answers 500
WriteSummaryFail ==
    /\ dpc = "write"
    /\ pending # <<>>
    /\ dpc' = "ready"
    /\ pending' = <<>>
    /\ UNCHANGED <<run_no, completed, latest, dir_exists, files>>

\* lines 511-514: every summary is written; the handler answers 200
Respond ==
    /\ dpc = "write"
    /\ pending = <<>>
    /\ completed' = completed + 1
    /\ dpc' = "ready"
    /\ UNCHANGED <<pending, run_no, latest, dir_exists, files>>

DetNext ==
    \/ DetectOk /\ UNCHANGED notDetVars
    \/ DetectFail /\ UNCHANGED notDetVars
    \/ CreateDirOk /\ UNCHANGED notDetVars
    \/ CreateDirFail /\ UNCHANGED notDetVars
    \/ WriteSummaryOk /\ UNCHANGED notDetVars
    \/ WriteSummaryFail /\ UNCHANGED notDetVars
    \/ Respond /\ UNCHANGED notDetVars

DetInit == DetIdle /\ DiskIdle /\ IdleExcept({"det", "disk"})

SpecDetection == DetInit /\ [][DetNext]_vars

(***************************************************************************)
(* CommunityDetector::detect_and_summarize up to the end of                *)
(* assign_communities, a run that can be interrupted while it assigns, and *)
(* the run made afterwards on the same relation graph.                     *)
(***************************************************************************)
\* export_graph, graph_export.rs lines 61-70: the entities of the GraphData
\* are the endpoints of the relations
ExportedEntities == {r[1] : r \in rel_graph} \cup {r[2] : r \in rel_graph}

\* the maps detect_communities can return for the entities S: community ids
\* 0..k-1, all in use
Assignments(S) ==
    {f \in [S -> 0..(Cardinality(S) - 1)] :
        \E k \in 0..Cardinality(S) : Range(f) = 0..(k - 1)}

\* a run starts over some relation graph; no entity has a community_id yet
AsgStart ==
    /\ rel_graph \in Stores
    /\ community_id = [id \in StoreIds |-> <<>>]
    /\ apc = "export"
    /\ assignment = <<>>
    /\ remaining = <<>>
    /\ attempt = 1

\* lib.rs lines 48-58: the graph is exported and the communities detected;
\* line 94 walks the map in its own order
ExportAndDetect ==
    /\ apc = "export"
    /\ IF ExportedEntities = {}
       THEN /\ apc' = "done"
            /\ UNCHANGED <<assignment, remaining>>
       ELSE /\ assignment' \in Assignments(ExportedEntities)
            /\ remaining' \in Orders(ExportedEntities)
            /\ apc' = "assign"
    /\ UNCHANGED <<rel_graph, community_id, attempt>>

\* AssignOne leaving alone the entities that already have a community_id
AssignOne_KeepAssigned ==
    /\ apc = "assign"
    /\ remaining # <<>>
    /\ community_id' =
           IF community_id[Head(remaining)] # <<>> THEN community_id
           ELSE [community_id EXCEPT
                    ![Head(remaining)] = <<attempt, assignment[Head(remaining)]>>]
    /\ remaining' = Tail(remaining)
    /\ UNCHANGED <<rel_graph, apc, assignment, attempt>>

\* lines 94-102: the body of the loop, MATCH (e:Entity {id}) SET e.community_id
AssignOne ==
    /\ apc = "assign"
    /\ remaining # <<>>
    /\ community_id' = [community_id EXCEPT
           ![Head(remaining)] = <<attempt, assignment[Head(remaining)]>>]
    /\ remaining' = Tail(remaining)
    /\ UNCHANGED <<rel_graph, apc, assignment, attempt>>

\* line 104: every entity is written, assign_communities returns
AssignDone ==
    /\ apc = "assign"
    /\ remaining = <<>>
    /\ apc' = "done"
    /\ UNCHANGED <<rel_graph, community_id, assignment, remaining, attempt>>

\* the first run stops inside assign_communities, by a failed write (line 101)
\* or by the end of the process; detection is then started again
InterruptAndRerun ==
    /\ apc = "assign"
    /\ attempt = 1
    /\ attempt' = 2
    /\ apc' = "export"
    /\ assignment' = <<>>
    /\ remaining' = <<>>
    /\ UNCHANGED <<rel_graph, community_id>>

AsgNext ==
    \/ ExportAndDetect /\ UNCHANGED notAsgVars
    \/ AssignOne /\ UNCHANGED notAsgVars
    \/ AssignDone /\ UNCHANGED notAsgVars
    \/ InterruptAndRerun /\ UNCHANGED notAsgVars

AsgInit == AsgStart /\ IdleExcept({"asg"})

SpecAssign == AsgInit /\ [][AsgNext]_vars

(***************************************************************************)
(* The /extract handler: concurrent requests sharing the one Extractor     *)
(* behind AppState.extractor, a tokio::sync::Mutex.                        *)
(***************************************************************************)
Requests == 1..MaxRequests

\* the requests have arrived, each with its list of chunk files
ExtrStart ==
    /\ epc = [r \in Requests |-> "new"]
    /\ lock_owner = 0
    /\ chunks_left \in [Requests -> 0..MaxChunks]
    /\ entities_left = [r \in Requests |-> 0]

\* main.rs lines 317-335: the chunk files are listed and data/extracted created
ListChunksOk(r) ==
    /\ epc[r] = "new"
    /\ epc' = [epc EXCEPT ![r] = "loop"]
    /\ UNCHANGED <<lock_owner, chunks_left, entities_left>>

\* lines 325, 327, 333-335: read_chunk_files or create_dir_all fails
ListChunksFail(r) ==
    /\ epc[r] = "new"
    /\ epc' = [epc EXCEPT ![r] = "err"]
    /\ UNCHANGED <<lock_owner, chunks_left, entities_left>>

\* lines 337-344: the next chunk file is read and parsed
ReadChunkOk(r) ==
    /\ epc[r] = "loop"
    /\ chunks_left[r] > 0
    /\ epc' = [epc EXCEPT ![r] = "wait"]
    /\ UNCHANGED <<lock_owner, chunks_left, entities_left>>

\* lines 339-344: the chunk file cannot be read or parsed
ReadChunkFail(r) ==
    /\ epc[r] = "loop"
    /\ chunks_left[r] > 0
    /\ epc' = [epc EXCEPT ![r] = "err"]
    /\ UNCHANGED <<lock_owner, chunks_left, entities_left>>

\* state.extractor.lock() returning at once, whoever holds the lock
Lock_NoWait(r) ==
    /\ epc[r] = "wait"
    /\ lock_owner' = r
    /\ epc' = [epc EXCEPT ![r] = "llm"]
    /\ UNCHANGED <<chunks_left, entities_left>>

\* line 347: state.extractor.lock().await returns once the lock is free;
\* extract_chunk is entered and the LLM request is sent
Lock(r) ==
    /\ epc[r] = "wait"
    /\ lock_owner = 0
    /\ lock_owner' = r
    /\ epc' = [epc EXCEPT ![r] = "llm"]
    /\ UNCHANGED <<chunks_left, entities_left>>

\* extract/lib.rs lines 52-60: the LLM answers with some entities
LlmOk(r) ==
    /\ epc[r] = "llm"
    /\ \E n \in 0..MaxEntities :
         entities_left' = [entities_left EXCEPT ![r] = n]
    /\ epc' = [epc EXCEPT ![r] = "normalize"]
    /\ UNCHANGED <<lock_owner, chunks_left>>

\* lib.rs lines 52-60 and main.rs lines 352-355: the LLM call or the parse
\* fails; the handler returns and the guard is dropped
LlmFail(r) ==
    /\ epc[r] = "llm"
    /\ epc' = [epc EXCEPT ![r] = "err"]
    /\ lock_owner' = 0
    /\ UNCHANGED <<chunks_left, entities_left>>

\* lib.rs lines 66-71: one entity is normalized against the alias table
NormalizeEntity(r) ==
    /\ epc[r] = "normalize"
    /\ entities_left[r] > 0
    /\ entities_left' = [entities_left EXCEPT ![r] = @ - 1]
    /\ UNCHANGED <<epc, lock_owner, chunks_left>>

\* lib.rs lines 73-83 and 93-99: extract_chunk returns
ExtractChunkReturns(r) ==
    /\ epc[r] = "normalize"
    /\ entities_left[r] = 0
    /\ epc' = [epc EXCEPT ![r] = "save"]
    /\ UNCHANGED <<lock_owner, chunks_left, entities_left>>

\* main.rs lines 357-367: the result is written, the iteration ends and the
\* guard declared in it is dropped
SaveOk(r) ==
    /\ epc[r] = "save"
    /\ epc' = [epc EXCEPT ![r] = "loop"]
    /\ chunks_left' = [chunks_left EXCEPT ![r] = @ - 1]
    /\ lock_owner' = 0
    /\ UNCHANGED entities_left

\* lines 362-366: serializing or writing fails
SaveFail(r) ==
    /\ epc[r] = "save"
    /\ epc' = [epc EXCEPT ![r] = "err"]
    /\ lock_owner' = 0
    /\ UNCHANGED <<chunks_left, entities_left>>

\* lines 369-373: every chunk is done, the response is sent
ExtractResponds(r) ==
    /\ epc[r] = "loop"
    /\ chunks_left[r] = 0
    /\ epc' = [epc EXCEPT ![r] = "done"]
    /\ UNCHANGED <<lock_owner, chunks_left, entities_left>>

ExtrNext ==
    \/ \E r \in Requests : ListChunksOk(r) /\ UNCHANGED notExtrVars
    \/ \E r \in Requests : ListChunksFail(r) /\ UNCHANGED notExtrVars
    \/ \E r \in Requests : ReadChunkOk(r) /\ UNCHANGED notExtrVars
    \/ \E r \in Requests : ReadChunkFail(r) /\ UNCHANGED notExtrVars
    \/ \E r \in Requests : Lock(r) /\ UNCHANGED notExtrVars
    \/ \E r \in Requests : LlmOk(r) /\ UNCHANGED notExtrVars
    \/ \E r \in Requests : LlmFail(r) /\ UNCHANGED notExtrVars
    \/ \E r \in Requests : NormalizeEntity(r) /\ UNCHANGED notExtrVars
    \/ \E r \in Requests : ExtractChunkReturns(r) /\ UNCHANGED notExtrVars
    \/ \E r \in Requests : SaveOk(r) /\ UNCHANGED notExtrVars
    \/ \E r \in Requests : SaveFail(r) /\ UNCHANGED notExtrVars
    \/ \E r \in Requests : ExtractResponds(r) /\ UNCHANGED notExtrVars

ExtrInit == ExtrStart /\ IdleExcept({"extr"})

SpecExtract == ExtrInit /\ [][ExtrNext]_vars

(***************************************************************************)
(* GraphData and GraphExporter::export_graph.                              *)
(***************************************************************************)
\* the usize values handed to add_edge: the positions the entity list can
\* have, and one past them
EdgeIndices == 0..Cardinality(StoreIds)

\* graph_export.rs lines 21-30: the GraphData after the call and the index
\* returned
add_entity(g, entity_id) ==
    IF entity_id \in DOMAIN g.entity_to_idx
    THEN [graph |-> g, idx |-> g.entity_to_idx[entity_id]]
    ELSE [graph |-> [g EXCEPT
                       !.entities = Append(@, entity_id),
                       !.entity_to_idx =
                           [x \in DOMAIN @ \cup {entity_id} |->
                               IF x = entity_id THEN Len(g.entities) ELSE @[x]]],
          idx |-> Len(g.entities)]

\* lines 32-34
add_edge(g, source, target) ==
    [g EXCEPT !.edges = Append(@, <<source, target>>)]

\* lines 61-70: the rows of the answer, one after the other
RECURSIVE ExportRows(_, _)
ExportRows(g, rows) ==
    IF rows = <<>> THEN g
    ELSE LET s == add_entity(g, Head(rows)[1])
             t == add_entity(s.graph, Head(rows)[2])
         IN ExportRows(add_edge(t.graph, s.idx, t.idx), Tail(rows))

\* a caller adds an entity
AddEntity ==
    /\ graph_calls < MaxGraphCalls
    /\ \E entity_id \in StoreIds :
         /\ graph_data' = add_entity(graph_data, entity_id).graph
         /\ idx' = add_entity(graph_data, entity_id).idx
    /\ graph_calls' = graph_calls + 1

\* a caller adds an edge between two indices
AddEdge ==
    /\ graph_calls < MaxGraphCalls
    /\ \E source, target \in EdgeIndices :
         graph_data' = add_edge(graph_data, source, target)
    /\ graph_calls' = graph_calls + 1
    /\ UNCHANGED idx

\* export_graph, lines 47-78: a new GraphData built from the relations of the
\* graph store, in the order the store returns them
ExportGraph ==
    /\ graph_calls < MaxGraphCalls
    /\ \E rels \in Stores : \E rows \in Orders(rels) :
         graph_data' = ExportRows(
             [entities |-> <<>>, edges |-> <<>>, entity_to_idx |-> <<>>], rows)
    /\ idx' = <<>>
    /\ graph_calls' = graph_calls + 1

GdNext ==
    \/ AddEntity /\ UNCHANGED notGdVars
    \/ AddEdge /\ UNCHANGED notGdVars
    \/ ExportGraph /\ UNCHANGED notGdVars

GdInit == GdIdle /\ IdleExcept({"gd"})

SpecGraphData == GdInit /\ [][GdNext]_vars

(***************************************************************************)
(* Neo4jIndexer: index_entity, index_relation and ensure_entity_exists.    *)
(***************************************************************************)
\* the extract::Entity values handed to index_entity
IndexedEntities ==
    [id : StoreIds, name : {<<"n">>}, entity_type : {"PERSON", "ORG"},
     description : {"d"}]

\* the extract::Relation values handed to index_relation
IndexedRelations == [source : StoreIds, relation : {"r"}, target : StoreIds]

\* the table m with key k set to v, added if absent
Put(m, k, v) == [x \in DOMAIN m \cup {k} |-> IF x = k THEN v ELSE m[x]]

\* lines 37-44: MERGE (e:Entity {id}) SET name, type, description
MergeEntity(nodes, entity) ==
    Put(nodes, entity.id, [name |-> entity.name,
                           type |-> entity.entity_type,
                           description |-> entity.description])

\* ensure_entity_exists with SET in place of ON CREATE SET: the placeholder
\* values are written over an existing node as well
MergePlaceholder_Overwrite(nodes, entity_id) ==
    Put(nodes, entity_id, [name |-> entity_id, type |-> "UNKNOWN",
                           description |-> "Auto-created"])

\* lines 86-89: MERGE (e:Entity {id}) ON CREATE SET name = id, type = 'UNKNOWN',
\* description = 'Auto-created'
MergePlaceholder(nodes, entity_id) ==
    IF entity_id \in DOMAIN nodes THEN nodes
    ELSE Put(nodes, entity_id, [name |-> entity_id, type |-> "UNKNOWN",
                                description |-> "Auto-created"])

\* index_entity, lines 36-54, the statement succeeding
IndexEntityOk ==
    /\ ipc.at = "idle"
    /\ index_calls < MaxIndexCalls
    /\ \E entity \in IndexedEntities :
         store_nodes' = MergeEntity(store_nodes, entity)
    /\ index_calls' = index_calls + 1
    /\ UNCHANGED <<store_edges, ipc>>

\* lines 50-51: the statement fails, nothing is written
IndexEntityFail ==
    /\ ipc.at = "idle"
    /\ index_calls < MaxIndexCalls
    /\ index_calls' = index_calls + 1
    /\ UNCHANGED <<store_nodes, store_edges, ipc>>

\* index_relation is called, line 57
IndexRelationCall ==
    /\ ipc.at = "idle"
    /\ index_calls < MaxIndexCalls
    /\ \E relation \in IndexedRelations :
         ipc' = [at |-> "source", relation |-> relation]
    /\ index_calls' = index_calls + 1
    /\ UNCHANGED <<store_nodes, store_edges>>

\* line 59: ensure_entity_exists(&relation.source)
EnsureSourceOk ==
    /\ ipc.at = "source"
    /\ store_nodes' = MergePlaceholder(store_nodes, ipc.relation.source)
    /\ ipc' = [ipc EXCEPT !.at = "target"]
    /\ UNCHANGED <<store_edges, index_calls>>

\* line 60: ensure_entity_exists(&relation.target)
EnsureTargetOk ==
    /\ ipc.at = "target"
    /\ store_nodes' = MergePlaceholder(store_nodes, ipc.relation.target)
    /\ ipc' = [ipc EXCEPT !.at = "merge"]
    /\ UNCHANGED <<store_edges, index_calls>>

\* lines 63-78: MATCH source, MATCH target, MERGE the RELATION edge
MergeRelationOk ==
    /\ ipc.at = "merge"
    /\ store_edges' =
           IF /\ ipc.relation.source \in DOMAIN store_nodes
              /\ ipc.relation.target \in DOMAIN store_nodes
           THEN store_edges \cup {<<ipc.relation.source, ipc.relation.relation,
                                    ipc.relation.target>>}
           ELSE store_edges
    /\ ipc' = [at |-> "idle"]
    /\ UNCHANGED <<store_nodes, index_calls>>

\* lines 59, 60, 77-78 and 92-93: one of the three statements fails and
\* index_relation returns the error; what was written stays
IndexRelationFail ==
    /\ ipc.at \in {"source", "target", "merge"}
    /\ ipc' = [at |-> "idle"]
    /\ UNCHANGED <<store_nodes, store_edges, index_calls>>

IxNext ==
    \/ IndexEntityOk /\ UNCHANGED notIxVars
    \/ IndexEntityFail /\ UNCHANGED notIxVars
    \/ IndexRelationCall /\ UNCHANGED notIxVars
    \/ EnsureSourceOk /\ UNCHANGED notIxVars
    \/ EnsureTargetOk /\ UNCHANGED notIxVars
    \/ MergeRelationOk /\ UNCHANGED notIxVars
    \/ IndexRelationFail /\ UNCHANGED notIxVars

IxInit == IxIdle /\ IdleExcept({"ix"})

SpecIndexer == IxInit /\ [][IxNext]_vars

(***************************************************************************)
(* EntityNormalizer::are_similar on names of several words.                *)
(***************************************************************************)
\* the names normalize hands to are_similar: the normalized forms, here over
\* two letters and the space
NormalizedNames ==
    {n \in UNION {[1..k -> {"a", "b", " "}] : k \in 0..MaxWordsLen} :
        NormalizedForm(n) = n}

\* are_similar is about to be called on two names
SimStart ==
    /\ sim_a \in NormalizedNames
    /\ sim_b \in NormalizedNames
    /\ sim_result = "none"

\* lines 59-86: are_similar returns
AreSimilarReturns ==
    /\ sim_result = "none"
    /\ sim_result' = IF are_similar(sim_a, sim_b) THEN "true" ELSE "false"
    /\ UNCHANGED <<sim_a, sim_b>>

SimNext == AreSimilarReturns /\ UNCHANGED notSimVars

SimInit == SimStart /\ IdleExcept({"sim"})

SpecSimilar == SimInit /\ [][SimNext]_vars

(***************************************************************************)
(* The entity ids of a chunk: joined by index_chunk, split by search.       *)
(***************************************************************************)
\* the canonical ids the normalizer can produce: the normalized forms
CanonicalIds == {NormalizedForm(name) : name \in LongNames}

\* [String]::join(sep)
RECURSIVE join(_, _)
join(strings, sep) ==
    IF strings = <<>> THEN <<>>
    ELSE IF Len(strings) = 1 THEN strings[1]
    ELSE strings[1] \o sep \o join(Tail(strings), sep)

\* index_extracted_chunk (index/lib.rs lines 57-60) has collected the ids of the
\* entities extracted from a chunk
RtStart ==
    /\ chunk_entity_ids \in UNION {[1..n -> CanonicalIds] : n \in 0..MaxChunkEntities}
    /\ stored_payload = <<>>
    /\ seed_entities = {}
    /\ rt_pc = "collected"

\* qdrant_index.rs lines 143-146: the payload field entity_ids
IndexChunk ==
    /\ rt_pc = "collected"
    /\ stored_payload' = join(chunk_entity_ids, <<",">>)
    /\ rt_pc' = "indexed"
    /\ UNCHANGED <<chunk_entity_ids, seed_entities>>

\* local_search.rs lines 71-77: the chunk is retrieved and its ids are read
RetrieveChunk ==
    /\ rt_pc = "indexed"
    /\ seed_entities' = SeedIds(stored_payload)
    /\ rt_pc' = "retrieved"
    /\ UNCHANGED <<chunk_entity_ids, stored_payload>>

RtNext ==
    \/ IndexChunk /\ UNCHANGED notRtVars
    \/ RetrieveChunk /\ UNCHANGED notRtVars

RtInit == RtStart /\ IdleExcept({"rt"})

SpecRoundTrip == RtInit /\ [][RtNext]_vars

(***************************************************************************)
(* OllamaClient::generate_json_with_retry.                                 *)
(***************************************************************************)
\* the texts the LLM can answer with
Responses == {"{}", "[]", "{", "oops"}

\* serde_json::from_str::<Value>(&response).is_ok()
IsJson(response) == response \in {"{}", "[]"}

\* the call is made, with any max_retries within the bound
RetryStart ==
    /\ max_retries \in 0..MaxRetries
    /\ attempt_no = 0
    /\ jpc = "for"
    /\ llm_history = <<>>
    /\ json_result = [kind |-> "none"]

\* line 75: the range 0..max_retries yields another attempt
NextAttempt ==
    /\ jpc = "for"
    /\ attempt_no < max_retries
    /\ jpc' = "generate"
    /\ UNCHANGED <<max_retries, attempt_no, llm_history, json_result>>

\* line 97: the range is exhausted
RetriesExhausted ==
    /\ jpc = "for"
    /\ attempt_no >= max_retries
    /\ json_result' = [kind |-> "Err"]
    /\ jpc' = "returned"
    /\ UNCHANGED <<max_retries, attempt_no, llm_history>>

\* GenerateFails trying on with the next attempt instead of returning
GenerateFails_TriesOn ==
    /\ jpc = "generate"
    /\ llm_history' = Append(llm_history, "failed")
    /\ attempt_no' = attempt_no + 1
    /\ jpc' = "for"
    /\ UNCHANGED <<max_retries, json_result>>

\* line 76: generate returns Err, which `?` hands on
GenerateFails ==
    /\ jpc = "generate"
    /\ llm_history' = Append(llm_history, "failed")
    /\ json_result' = [kind |-> "Err"]
    /\ jpc' = "returned"
    /\ UNCHANGED <<max_retries, attempt_no>>

\* lines 76-94: generate answers; valid JSON is returned, anything else leads
\* to the correction call or, in the last attempt, to the end of the attempt
GenerateAnswers ==
    /\ jpc = "generate"
    /\ \E response \in Responses :
         /\ llm_history' = Append(llm_history, response)
         /\ IF IsJson(response)
            THEN /\ json_result' = [kind |-> "Ok", value |-> response]
                 /\ jpc' = "returned"
                 /\ UNCHANGED attempt_no
            ELSE IF attempt_no < max_retries - 1
            THEN /\ jpc' = "correct"
                 /\ UNCHANGED <<attempt_no, json_result>>
            ELSE /\ jpc' = "for"
                 /\ attempt_no' = attempt_no + 1
                 /\ UNCHANGED json_result
    /\ UNCHANGED max_retries

\* line 90: the correction call returns Err
CorrectionFails ==
    /\ jpc = "correct"
    /\ llm_history' = Append(llm_history, "failed")
    /\ json_result' = [kind |-> "Err"]
    /\ jpc' = "returned"
    /\ UNCHANGED <<max_retries, attempt_no>>

\* lines 90-94: the correction call answers
CorrectionAnswers ==
    /\ jpc = "correct"
    /\ \E corrected \in Responses :
         /\ llm_history' = Append(llm_history, corrected)
         /\ IF IsJson(corrected)
            THEN /\ json_result' = [kind |-> "Ok", value |-> corrected]
                 /\ jpc' = "returned"
                 /\ UNCHANGED attempt_no
            ELSE /\ jpc' = "for"
                 /\ attempt_no' = attempt_no + 1
                 /\ UNCHANGED json_result
    /\ UNCHANGED max_retries

RetryNext ==
    \/ NextAttempt /\ UNCHANGED notRetryVars
    \/ RetriesExhausted /\ UNCHANGED notRetryVars
    \/ GenerateFails /\ UNCHANGED notRetryVars
    \/ GenerateAnswers /\ UNCHANGED notRetryVars
    \/ CorrectionFails /\ UNCHANGED notRetryVars
    \/ CorrectionAnswers /\ UNCHANGED notRetryVars

RetryInit == RetryStart /\ IdleExcept({"retry"})

\* the call runs on, and each call of generate returns, with an answer or an
\* error
SpecRetry == RetryInit /\ [][RetryNext]_vars /\ WF_vars(RetryNext)

(***************************************************************************)
(* Cache: set_embedding, set_llm_response and clear.                       *)
(***************************************************************************)
\* the texts and prompts that get cached
Texts == {"t" \o ToString(i) : i \in 1..MaxTexts}

\* lines 62-66: the hex SHA-256 digest, distinct for distinct texts
hash_text(text) == "sha256:" \o text

\* lines 23-32 and 44-52: the maps the eviction can leave.  When the map is
\* full, the first max_entries / 4 entries the iterator yields are removed,
\* which can be any entries; otherwise the map is left as it is.
Evicted(map) ==
    IF Cardinality(DOMAIN map) >= max_entries
    THEN {[k \in DOMAIN map \ to_remove |-> map[k]] :
            to_remove \in {r \in SUBSET DOMAIN map :
                Cardinality(r) = Min(max_entries \div 4, Cardinality(DOMAIN map))}}
    ELSE {map}

\* Cache::new(max_entries), lines 13-19
CacheNew ==
    /\ max_entries \in 0..MaxCacheEntries
    /\ embeddings = <<>>
    /\ llm_responses = <<>>

\* lines 22-35
set_embedding ==
    /\ \E text \in Texts : \E kept \in Evicted(embeddings) :
         embeddings' = Put(kept, hash_text(text), <<1>>)
    /\ UNCHANGED <<max_entries, llm_responses>>

\* lines 43-55
set_llm_response ==
    /\ \E prompt \in Texts : \E kept \in Evicted(llm_responses) :
         llm_responses' = Put(kept, hash_text(prompt), "response")
    /\ UNCHANGED <<max_entries, embeddings>>

\* lines 75-78
clear ==
    /\ embeddings' = <<>>
    /\ llm_responses' = <<>>
    /\ UNCHANGED max_entries

CacheNext ==
    \/ set_embedding /\ UNCHANGED notCacheVars
    \/ set_llm_response /\ UNCHANGED notCacheVars
    \/ clear /\ UNCHANGED notCacheVars

CacheInit == CacheNew /\ IdleExcept({"cache"})

SpecCache == CacheInit /\ [][CacheNext]_vars

(***************************************************************************)
(* Claims about the entity normalizer.                                     *)
(***************************************************************************)
\* C1: within one session, any two calls normalize(s) with the same raw string
\* s, adjacent or separated by other calls, returned the same canonical id.
\* (The history files each call under the normalized form of its raw string, so
\* the calls with one raw string are among those compared with each other.)
C1_SameStringSameId ==
    \A form \in DOMAIN returned :
        \A p, q \in returned[form] : p[2] = q[2]

\* the third call repeats the form of the first, the second had another form and
\* the id is not the form itself
C1_Witness ==
    /\ calls = 3
    /\ \E k \in DOMAIN returned :
         /\ {p[1] : p \in returned[k]} = {1, 3}
         /\ aliases[k] = returned_id
    /\ returned_id # <<>>
    /\ \E k \in DOMAIN aliases : aliases[k] # k

\* C2: when the normalized form of the name is not yet a key of the table and a
\* key of the table is a substring of it or contains it, normalize returns the
\* canonical id of an entry the table already had and adds no canonical id; on
\* a new normalizer, a second call of this kind returns the id of the first.
C2_ContainmentAliases ==
    [][(/\ calls' = calls + 1
        /\ normalized' \notin DOMAIN aliases
        /\ \E k \in DOMAIN aliases :
               Contains(normalized', k) \/ Contains(k, normalized'))
       => (/\ returned_id' \in Range(aliases)
           /\ Range(aliases') = Range(aliases)
           /\ normalized' \in DOMAIN aliases'
           /\ (calls = 1 => returned_id' = returned_id))]_vars

\* the second call of a session had a longer form that contains the first one
C2_Witness ==
    /\ calls = 2
    /\ branch = "alias"
    /\ returned_id # <<>>
    /\ Len(normalized) > Len(returned_id)
    /\ Contains(normalized, returned_id)
    /\ DOMAIN aliases = {normalized, returned_id}

\* the form the claim describes: lower-cased, without the punctuation, the
\* whitespace runs collapsed to one space and no whitespace left around it
ClaimedForm(name) ==
    trim(CollapseSpaces(RemovePunctuation(to_lowercase(name))))

\* C3: when no key of the table equals or is similar to it (on a new normalizer:
\* always), normalize(raw) returns the normalized form of raw, lower-cased,
\* without surrounding whitespace, without the punctuation and with whitespace
\* runs collapsed, and registers it as its own canonical id; so raw names that
\* differ only in case, surrounding whitespace or punctuation get the same id.
C3_NewIdIsClaimedForm ==
    branch = "new" =>
        /\ returned_id = ClaimedForm(arg)
        /\ aliases = (returned_id :> returned_id)

(***************************************************************************)
(* Claims about the community detector.                                    *)
(***************************************************************************)
\* the entity identifiers of the snapshot
EntityIds == {entities[i] : i \in 1..NumNodes}

\* C4: for every GraphData, detect_communities returns a map whose keys are
\* exactly the entity identifiers of the snapshot, whose community ids are
\* exactly 0..k-1 for the k communities left, and which groups the entities as
\* the final assignment does; for no entities the map is empty.
C4_ContiguousIds ==
    lpc = "done" =>
        /\ DOMAIN result = EntityIds
        /\ Range(result) = 0..(Cardinality(Range(communities)) - 1)
        /\ \A i, j \in 1..NumNodes :
               (result[entities[i]] = result[entities[j]])
                   <=> (communities[i - 1] = communities[j - 1])
        /\ (NumNodes = 0 => result = <<>>)

\* a run that merged communities, so that the ids left were not contiguous
C4_Witness ==
    /\ lpc = "done"
    /\ NumNodes = 4
    /\ Cardinality(Range(result)) = 2
    /\ Range(communities) # {0, 1}

\* C5: with n entities and no edge, detect_communities makes no move and
\* returns n distinct community ids that together are exactly 0..n-1.
C5_NoEdgesAllSingletons ==
    (lpc = "done" /\ edges = <<>>) =>
        /\ total_moves = 0
        /\ Range(result) = 0..(NumNodes - 1)
        /\ \A i, j \in 1..NumNodes :
               result[entities[i]] = result[entities[j]] => i = j

\* a finished run on three or more entities without edges
C5_Witness ==
    /\ lpc = "done"
    /\ edges = <<>>
    /\ NumNodes >= 3
    /\ Cardinality(Range(result)) = NumNodes

\* the graph has four entities and its only edges join a with b and c with d,
\* each pair by at least one edge
TwoDisjointPairs(a, b, c, d) ==
    /\ NumNodes = 4
    /\ {a, b, c, d} = 0..3
    /\ \A i \in 1..Len(edges) :
           {edges[i][1], edges[i][2]} \in {{a, b}, {c, d}}
    /\ \E i \in 1..Len(edges) : {edges[i][1], edges[i][2]} = {a, b}
    /\ \E i \in 1..Len(edges) : {edges[i][1], edges[i][2]} = {c, d}

\* C6: on four entities whose only edges join two disjoint pairs a-b and c-d,
\* detect_communities ends with a and b in one community, c and d in another
\* one, and without a move in its final pass.
C6_TwoPairsTwoCommunities ==
    (lpc = "done" /\ NumNodes = 4) =>
        \A a, b, c, d \in 0..3 :
            TwoDisjointPairs(a, b, c, d) =>
                /\ result[entities[a + 1]] = result[entities[b + 1]]
                /\ result[entities[c + 1]] = result[entities[d + 1]]
                /\ result[entities[a + 1]] # result[entities[c + 1]]
                /\ pass_moves = 0
                /\ ~improved

\* a finished run on two disjoint pairs that are interleaved in the entity list
C6_Witness ==
    /\ lpc = "done"
    /\ TwoDisjointPairs(0, 2, 1, 3)
    /\ total_moves = 2

(***************************************************************************)
(* Claims about local search.                                              *)
(***************************************************************************)
\* search got past the loop of line 71 and its seed set is empty
SeedsEmpty ==
    /\ spc \in {"details", "relations", "generate", "ok"}
       \/ (spc = "err" /\ failed \notin {"embed", "vector"})
    /\ entity_ids = {}

\* search has returned
Returned == spc \in {"ok", "err"}

\* C7, as stated: a local search whose seed-entity set is empty issues no
\* graph-store query, calls the LLM, and returns success with
\* trace.entities_expanded = 0.
C7_EmptySeedsSucceed ==
    (SeedsEmpty /\ Returned) =>
        /\ graph_queries = 0
        /\ llm_calls = 1
        /\ search_result.kind = "Ok"
        /\ search_result.trace.entities_expanded = 0

\* C7, amended: a local search whose seed-entity set is empty issues no
\* graph-store query at any point and calls the LLM exactly once; it returns
\* success with trace.entities_expanded = 0 when that call answers, and the
\* LLM's error when it fails.
C7_EmptySeedsNoGraphQuery ==
    SeedsEmpty =>
        /\ graph_queries = 0
        /\ Returned =>
             /\ llm_calls = 1
             /\ failed \in {"none", "generate"}
             /\ failed = "none" =>
                  /\ spc = "ok"
                  /\ search_result.kind = "Ok"
                  /\ search_result.trace.entities_expanded = 0
                  /\ search_result.trace.entities_found = 0
             /\ failed = "generate" => search_result.kind = "Err"

\* two points were read, neither gave a seed, the graph store holds a relation,
\* and search returned success
C7_Witness ==
    /\ spc = "ok"
    /\ entity_ids = {}
    /\ chunks_retrieved = 2
    /\ Len(sources) = 1
    /\ store_relations # {}
    /\ search_result.trace.entities_expanded = 0

\* C10: when the embedding call, the vector-store search or a graph-store
\* query fails, search returns an error, no result is produced, and the LLM
\* is never called.
C10_FailureMeansError ==
    failed \in {"embed", "vector", "expand", "details", "relations"} =>
        /\ spc = "err"
        /\ search_result.kind = "Err"
        /\ llm_calls = 0

\* the relations query failed after seeds were found, sources collected and
\* the two hops and the details query answered
C10_Witness ==
    /\ failed = "relations"
    /\ graph_queries = 4
    /\ sources # <<>>
    /\ Cardinality(expanded_entities) > Cardinality(entity_ids)
    /\ search_result.kind = "Err"

ZeroVector(v) == \A i \in DOMAIN v : v[i] = 0

\* one unit in the last place of 1.0
Tolerance == Pow2(UnitExp - Precision + 1)

\* C9: cosine_similarity returns exactly 0 when either vector has zero
\* magnitude, and, for a non-zero vector paired with itself, 1.0 within
\* floating-point tolerance.
C9_CosineZeroOrOne ==
    cpc = "done" =>
        /\ (ZeroVector(vec_a) \/ ZeroVector(vec_b)) => similarity = 0
        /\ (vec_a = vec_b /\ ~ZeroVector(vec_a)) =>
               /\ similarity # NaN
               /\ Abs(similarity - One) <= Tolerance

(***************************************************************************)
(* Further claims about local search.                                      *)
(***************************************************************************)
\* the position, in the answer of the vector store, of the point a source
\* was built from
PointIndex(source) ==
    CHOOSE i \in 0..(MaxPoints - 1) : source.chunk_id = "chunk" \o ToString(i)

\* C11: in every successful local search, result.sources lists the retrieved
\* chunks in the relative order in which the vector store returned them.
C11_SourcesKeepRanking ==
    spc = "ok" =>
        LET srcs == search_result.sources IN
        /\ \A i \in DOMAIN srcs :
             /\ srcs[i].chunk_id = "chunk" \o ToString(PointIndex(srcs[i]))
             /\ PointIndex(srcs[i]) < chunks_retrieved
        /\ \A i, j \in DOMAIN srcs :
             i < j => PointIndex(srcs[i]) < PointIndex(srcs[j])

\* a search over two points, both with a chunk id and a text, succeeded
C11_Witness ==
    /\ spc = "ok"
    /\ chunks_retrieved = 2
    /\ Len(search_result.sources) = 2
    /\ search_result.sources[1].chunk_id = "chunk0"
    /\ search_result.sources[2].chunk_id = "chunk1"

(***************************************************************************)
(* Further claims about global search and the persisted summaries.         *)
(***************************************************************************)
\* C12: a global search made when there are no community summaries to rank
\* (none persisted yet, or an empty store) is not an error: it returns a
\* result with an empty communities list and a trace of 0 communities searched
\* and used.  The failures of the embedding service, of the LLM and of the
\* file system are left aside.
C12_NoSummariesIsNoError ==
    (/\ DOMAIN files = {}
     /\ gpc \in {"ok", "err", "panic"}
     /\ gs_failed \in {"none", "no directory"}) =>
        /\ gpc = "ok"
        /\ global_result.kind = "Ok"
        /\ global_result.communities = <<>>
        /\ global_result.trace.communities_searched = 0
        /\ global_result.trace.communities_used = 0

(***************************************************************************)
(* Determinism of community detection and of the normalizer.               *)
(***************************************************************************)
\* two maps group their keys in the same way
SamePartition(f, g) ==
    /\ DOMAIN f = DOMAIN g
    /\ \A x, y \in DOMAIN f : (f[x] = f[y]) <=> (g[x] = g[y])

\* C13: two runs of detect_communities on identical input group the entities
\* into the same partition, whatever the enumeration order of the
\* neighbour-community map and of the surviving community ids.
C13_SamePartitionTwice ==
    (lpc = "done" /\ runs = 1) => SamePartition(first_result, result)

\* C14: two EntityNormalizer sessions fed the same sequence of raw names
\* return the same sequence of canonical ids: in every state a session can
\* reach, the id a call returns is the only one the call can return, also
\* when the name is similar to several keys with different canonical ids.
C14_SameSequenceSameIds ==
    [][(calls' = calls + 1 /\ normalized' \notin DOMAIN aliases) =>
          \A k \in DOMAIN aliases :
              are_similar(normalized', k) => returned_id' = aliases[k]]_vars

\* C15: after any sequence of completed detection runs, the persisted
\* summary artifacts that global search loads are exactly those of the latest
\* run: one per community of that run and none left from an earlier run.
C15_OnlyLatestRunOnDisk ==
    (dpc = "ready" /\ completed = run_no /\ completed >= 1) =>
        /\ DOMAIN files = latest
        /\ \A id \in DOMAIN files : files[id] = run_no

\* C16: when a detection run is interrupted during assign_communities and
\* detection is run again to completion on the unchanged relation graph, every
\* entity that takes part in a relation ends with the community id the second
\* run assigned to it; no id written by the interrupted run survives on it.
C16_RerunOverwrites ==
    (attempt = 2 /\ apc = "done") =>
        \A id \in ExportedEntities :
            community_id[id] = <<2, assignment[id]>>

\* the first run wrote one of two entities before it stopped, and the second
\* run gave that entity another id than the first had written
C16_Witness ==
    /\ attempt = 2
    /\ apc = "assign"
    /\ Cardinality(ExportedEntities) = 2
    /\ \E id \in ExportedEntities :
         /\ community_id[id] # <<>>
         /\ community_id[id][1] = 1
         /\ community_id[id][2] # assignment[id]
    /\ \E id \in ExportedEntities : community_id[id] = <<>>

\* a request is inside extract_chunk: waiting for the LLM, or normalizing
InExtractChunk(r) == epc[r] \in {"llm", "normalize"}

\* C17: with concurrent /extract requests sharing the one Extractor, at most
\* one request at a time is inside extract_chunk, so the normalize steps of two
\* requests never interleave; a request inside extract_chunk, its LLM call
\* included, holds the lock, and a request between two chunks does not.
C17_OneRequestInExtractChunk ==
    /\ \A r1, r2 \in DOMAIN epc :
         (InExtractChunk(r1) /\ InExtractChunk(r2)) => r1 = r2
    /\ \A r \in DOMAIN epc :
         /\ InExtractChunk(r) => lock_owner = r
         /\ epc[r] \in {"new", "loop", "wait", "done", "err"} => lock_owner # r

\* one request, all its chunks still ahead, waits for the lock, which another
\* holds across the LLM call of a chunk
C17_Witness ==
    \E r1, r2 \in DOMAIN epc :
        /\ epc[r1] = "llm"
        /\ lock_owner = r1
        /\ chunks_left[r1] < MaxChunks
        /\ epc[r2] = "wait"
        /\ chunks_left[r2] = MaxChunks

\* C18: when a store response lacks an expected field, local search aborts
\* with an error instead of going on with a defaulted value: a search in which
\* a point of the vector store's answer came without chunk id or text does not
\* return Ok.
C18_MissingFieldAborts == (defaulted /\ Returned) => search_result.kind = "Err"

\* both indices of every edge are positions of the entity list
EdgesInRange ==
    \A k \in DOMAIN graph_data.edges :
        /\ graph_data.edges[k][1] < Len(graph_data.entities)
        /\ graph_data.edges[k][2] < Len(graph_data.entities)

\* entity_to_idx maps each identifier to the one position that holds it
IndexMapIsBijection ==
    /\ DOMAIN graph_data.entity_to_idx = Range(graph_data.entities)
    /\ \A id \in DOMAIN graph_data.entity_to_idx :
         /\ graph_data.entity_to_idx[id] \in 0..(Len(graph_data.entities) - 1)
         /\ graph_data.entities[graph_data.entity_to_idx[id] + 1] = id
    /\ \A i, j \in DOMAIN graph_data.entities :
         graph_data.entities[i] = graph_data.entities[j] => i = j

\* C19: after any sequence of add_entity and add_edge calls on a GraphData, and
\* for every snapshot built by export_graph, both indices of every edge are
\* smaller than entities.len() and entity_to_idx is a bijection between the
\* identifiers and the positions of entities.
C19_GraphDataInvariant == EdgesInRange /\ IndexMapIsBijection

\* both endpoints of every stored relation are entities of the store
EndpointsExist ==
    \A edge \in store_edges :
        edge[1] \in DOMAIN store_nodes /\ edge[3] \in DOMAIN store_nodes

\* C20: in every graph-store state reached by index_entity and index_relation
\* calls, both endpoints of every stored relation exist as entities; a step of
\* index_relation creates an unknown endpoint as a placeholder of type UNKNOWN
\* and leaves the name, type and description of an existing one as they were;
\* no step deletes an entity.
C20_ReferentialIntegrity ==
    [][/\ EndpointsExist
       /\ EndpointsExist'
       /\ DOMAIN store_nodes \subseteq DOMAIN store_nodes'
       /\ ipc.at # "idle" =>
            /\ \A id \in DOMAIN store_nodes : store_nodes'[id] = store_nodes[id]
            /\ \A id \in DOMAIN store_nodes' \ DOMAIN store_nodes :
                 /\ id \in {ipc.relation.source, ipc.relation.target}
                 /\ store_nodes'[id].type = "UNKNOWN"]_vars

\* a stored relation joins an entity indexed before it, still of the type it
\* was indexed with, to an endpoint created as a placeholder
C20_Witness ==
    \E edge \in store_edges :
        /\ store_nodes[edge[1]].type = "PERSON"
        /\ store_nodes[edge[3]].type = "UNKNOWN"

\* C21: detect_communities terminates on every GraphData with valid edges; it
\* runs at most MAX_ITERATIONS passes over the nodes, and a pass in which no
\* node changed community is followed by no other pass.
C21_TerminatesWithinCap ==
    /\ <>(lpc = "done")
    /\ [](iteration <= MAX_ITERATIONS)
    /\ [][(lpc = "while" /\ iteration >= 1 /\ pass_moves = 0)
            => lpc' = "done"]_vars

\* a run ended after two passes: the first moved nodes, the second moved none
C21_Witness ==
    /\ lpc = "done"
    /\ iteration = 2
    /\ pass_moves = 0
    /\ total_moves > 0

Adjacent(x) ==
    {r[2] : r \in {q \in store_relations : q[1] = x}}
    \cup {r[1] : r \in {q \in store_relations : q[2] = x}}

\* the entities within relation distance 2 of a member of S
WithinTwo(S) ==
    S \cup UNION {Adjacent(x) : x \in S}
      \cup UNION {UNION {Adjacent(y) : y \in Adjacent(x)} : x \in S}

\* breadth-first search to depth d that expands only the entities just added
RECURSIVE BreadthFirst(_, _, _)
BreadthFirst(visited, frontier, d) ==
    IF d = 0 THEN visited
    ELSE LET added == UNION {Adjacent(x) : x \in frontier} \ visited
         IN  BreadthFirst(visited \cup added, added, d - 1)

\* C23: for a non-empty seed set S, expand_graph(S, 2) returns exactly S with
\* every entity within undirected relation distance 2 of a member of S, the set
\* a depth-2 breadth-first search over new entities only gives; it contains S.
C23_ExpandIsTwoHopNeighbourhood ==
    (spc = "details" /\ entity_ids # {}) =>
        /\ expanded_entities = WithinTwo(entity_ids)
        /\ expanded_entities = BreadthFirst(entity_ids, entity_ids, 2)
        /\ entity_ids \subseteq expanded_entities

\* expand_graph returned from a chain of three relations seeded at one end: the
\* entity two relations away, reached against the direction of a relation, is
\* in the result and the entity three relations away is not
C23_Witness ==
    /\ spc = "details"
    /\ entity_ids = {<<"a">>}
    /\ store_relations = {<<<<"a">>, <<"a", "a">>>>, <<<<"b">>, <<"a", "a">>>>,
                          <<<<"b">>, <<"b", "b">>>>}
    /\ expanded_entities = {<<"a">>, <<"a", "a">>, <<"b">>}

\* the whitespace-delimited words of a name, as a set
WordSet(s) == Range(split_whitespace(s))

\* more than 0.70 of the words of the smaller word set occur in the larger one
SmallerSetMostlyShared(a, b) ==
    10 * Cardinality(WordSet(a) \cap WordSet(b))
        > 7 * Min(Cardinality(WordSet(a)), Cardinality(WordSet(b)))

\* C24: two normalized names of at least 2 words each, neither a substring of
\* the other, are judged similar exactly when more than 0.70 of the words of
\* the smaller word set also occur in the larger word set, whichever of the two
\* is the new name.
C24_WordOverlapOfSmallerSet ==
    (/\ sim_result \in {"true", "false"}
     /\ Len(split_whitespace(sim_a)) >= 2
     /\ Len(split_whitespace(sim_b)) >= 2
     /\ ~Contains(sim_a, sim_b)
     /\ ~Contains(sim_b, sim_a)) =>
        (sim_result = "true") <=> SmallerSetMostlyShared(sim_a, sim_b)

\* C25: the substring rule fires only for a non-empty substring: the empty
\* normalized name is never merged with a non-empty one, and the empty name in
\* the alias table does not make later names aliases of it.  In the table, the
\* empty key and only the empty key has the empty canonical id.
C25_EmptyNameNeverMerged ==
    \A k \in DOMAIN aliases : (k = <<>>) <=> (aliases[k] = <<>>)

\* C26: across any sequence of normalize calls the alias table only grows: a
\* call adds at most one entry, removes none, and leaves every normalized
\* string that has a canonical id mapped to that same id.
C26_AliasTableOnlyGrows ==
    [][/\ DOMAIN aliases \subseteq DOMAIN aliases'
       /\ \A k \in DOMAIN aliases : aliases'[k] = aliases[k]
       /\ Cardinality(DOMAIN aliases') <= Cardinality(DOMAIN aliases) + 1]_vars

\* three calls were made: one registered a new entity, one added an alias of it
\* and one found its name in the table and added nothing
C26_Witness ==
    /\ calls = 3
    /\ Cardinality(DOMAIN aliases) = 2
    /\ Cardinality(Range(aliases)) = 1
    /\ branch = "hit"

\* C27: in every alias table reachable by normalize calls, every canonical id
\* is itself a key that maps to itself, so that alias chains have length at
\* most one; and what normalize returned is such an id.
C27_CanonicalIdsAreFixedPoints ==
    /\ \A k \in DOMAIN aliases :
         /\ aliases[k] \in DOMAIN aliases
         /\ aliases[aliases[k]] = aliases[k]
    /\ calls > 0 =>
         /\ returned_id \in DOMAIN aliases
         /\ aliases[returned_id] = returned_id

\* the table holds two aliases of one canonical id, the last call having added
\* the second
C27_Witness ==
    /\ branch = "alias"
    /\ Cardinality(DOMAIN aliases) = 3
    /\ Cardinality(Range(aliases)) = 1

\* C28: the seed set that search derives from a retrieved chunk is the set of
\* the entity ids the chunk was indexed with, for every canonical id the
\* normalizer can produce: the join and the split lose and alter no id.
C28_SeedsAreIndexedIds ==
    rt_pc = "retrieved" => seed_entities = Range(chunk_entity_ids)

\* C29: generate_json_with_retry(prompt, max_retries) returns, after at most
\* 2 * max_retries - 1 LLM calls, none when max_retries is 0; it returns Ok
\* only with the response of its last call, which parses as JSON; it returns
\* Err when no call gave valid JSON; and no call follows a failed one.
C29_RetryIsBounded ==
    /\ <>(json_result.kind # "none")
    /\ [](/\ Len(llm_history) <= IF max_retries = 0 THEN 0 ELSE 2 * max_retries - 1
          /\ \A i \in 1..(Len(llm_history) - 1) :
               llm_history[i] # "failed" /\ ~IsJson(llm_history[i])
          /\ json_result.kind = "Ok" =>
               /\ llm_history # <<>>
               /\ IsJson(llm_history[Len(llm_history)])
               /\ json_result.value = llm_history[Len(llm_history)]
          /\ json_result.kind = "Err" =>
               \A i \in 1..Len(llm_history) : ~IsJson(llm_history[i])
          /\ (llm_history # <<>> /\ llm_history[Len(llm_history)] = "failed") =>
               json_result.kind = "Err")

\* with max_retries = 2: the first answer and its correction were invalid, the
\* third call, the last one allowed, gave valid JSON
C29_Witness ==
    /\ max_retries = 2
    /\ Len(llm_history) = 3
    /\ json_result.kind = "Ok"

\* C30: for a Cache created with max_entries = N, after any sequence of
\* set_embedding, set_llm_response and clear calls the embeddings map and the
\* LLM-response map each hold at most N entries, for every N >= 0.
C30_CacheHoldsAtMostN ==
    /\ Cardinality(DOMAIN embeddings) <= max_entries
    /\ Cardinality(DOMAIN llm_responses) <= max_entries


====
